---------------------------- MODULE Spec2Model ----------------------------
(***************************************************************************)
(* Conversation flow of the mental-health screening assistant:             *)
(* ConversationFlowManager.process_user_message and its phase handlers     *)
(* (backend/conversation_flow.py), the SafetyMonitor classifier            *)
(* (backend/safety_monitor.py), the scoring collaborator's fallback        *)
(* (backend/gemini_client.py) and the session store they run against.      *)
(*                                                                         *)
(* Text is modelled as a sequence of one-character strings, so that        *)
(* lower(), strip(), split() and the `in' substring test are computed as   *)
(* Python computes them.                                                   *)
(***************************************************************************)
EXTENDS Integers, Sequences, FiniteSets, TLC

VARIABLES
    sessions,   \* SessionManager.sessions: session id -> SessionData
    last,       \* the last call made and what it returned
    monitor,    \* the SafetyMonitor object: its two word lists
    earlier,    \* one of the earlier classifier calls and what it returned
    manager,    \* the SessionManager object: its fields besides sessions
    handler     \* the CrisisOverrideHandler object: its own fields

vars == << sessions, last, monitor, earlier, manager, handler >>

-----------------------------------------------------------------------------
(* Bounds of the model *)

\* longest conversation_history a session is taken to
MaxHistory == 2

\* session ids handed out by create_session
SessionIds == {1}

\* score passed to add_response when the store is called directly
DirectScores == {1}

\* how many answers in a row the store is given directly
DirectBatches == {1, 4}

-----------------------------------------------------------------------------
(* Python string operations on character sequences *)

UpperCase ==
    << "A", "B", "C", "D", "E", "F", "G", "H", "I", "J", "K", "L", "M",
       "N", "O", "P", "Q", "R", "S", "T", "U", "V", "W", "X", "Y", "Z" >>

LowerCase ==
    << "a", "b", "c", "d", "e", "f", "g", "h", "i", "j", "k", "l", "m",
       "n", "o", "p", "q", "r", "s", "t", "u", "v", "w", "x", "y", "z" >>

\* str.lower() on one character
LowerChar(c) ==
    IF \E i \in 1..26 : UpperCase[i] = c
    THEN LowerCase[CHOOSE i \in 1..26 : UpperCase[i] = c]
    ELSE c

\* variant: the text is taken as typed
Lower_as_typed(s) == s

\* str.lower()
Lower(s) == [i \in 1..Len(s) |-> LowerChar(s[i])]

\* str.isspace() on one character
IsSpace(c) == c \in {" ", "\t", "\n"}

SetMin(S) == CHOOSE x \in S : \A y \in S : x <= y

SetMax(S) == CHOOSE x \in S : \A y \in S : x >= y

\* str.strip()
Strip(s) ==
    LET solid == {i \in 1..Len(s) : ~IsSpace(s[i])}
    IN  IF solid = {} THEN << >> ELSE SubSeq(s, SetMin(solid), SetMax(solid))

\* str.split()[0] of a string with at least one non-space character
FirstToken(s) ==
    LET t == Strip(s)
        gaps == {i \in 1..Len(t) : IsSpace(t[i])}
    IN  IF gaps = {} THEN t ELSE SubSeq(t, 1, SetMin(gaps) - 1)

\* needle in hay
Contains(hay, needle) ==
    \E i \in 0..(Len(hay) - Len(needle)) :
        \A j \in 1..Len(needle) : hay[i + j] = needle[j]

\* [w for w in words if w in text]
Matches(words, text) == SelectSeq(words, LAMBDA w : Contains(text, w))

\* any(w in text for w in words)
AnyIn(words, text) == \E i \in 1..Len(words) : Contains(text, words[i])

-----------------------------------------------------------------------------
(* Fixed word lists of the source *)

critical_triggers ==
    << <<"s", "u", "i", "c", "i", "d", "e">>,
       <<"s", "u", "i", "c", "i", "d", "a", "l">>,
       <<"k", "i", "l", "l", " ", "m", "y", "s", "e", "l", "f">>,
       <<"e", "n", "d", " ", "m", "y", " ", "l", "i", "f", "e">>,
       <<"s", "e", "l", "f", "-", "h", "a", "r", "m">>,
       <<"h", "u", "r", "t", " ", "m", "y", "s", "e", "l", "f">>,
       <<"c", "u", "t", " ", "m", "y", "s", "e", "l", "f">>,
       <<"h", "a", "r", "m", " ", "m", "y", "s", "e", "l", "f">>,
       <<"w", "a", "n", "t", " ", "t", "o", " ", "d", "i", "e">>,
       <<"b", "e", "t", "t", "e", "r", " ", "o", "f", "f", " ", "d", "e", "a", "d">>,
       <<"n", "o", " ", "p", "o", "i", "n", "t", " ", "l", "i", "v", "i", "n", "g">>,
       <<"h", "u", "r", "t", " ", "o", "t", "h", "e", "r", "s">>,
       <<"k", "i", "l", "l", " ", "s", "o", "m", "e", "o", "n", "e">>,
       <<"h", "a", "r", "m", " ", "o", "t", "h", "e", "r", "s">>,
       <<"e", "n", "d", " ", "i", "t", " ", "a", "l", "l">>,
       <<"t", "a", "k", "e", " ", "m", "y", " ", "o", "w", "n", " ", "l", "i", "f", "e">>,
       <<"n", "o", "t", " ", "w", "o", "r", "t", "h", " ", "l", "i", "v", "i", "n", "g">>,
       <<"k", "i", "l", "l", " ", "t", "h", "e", "m">> >>

warning_indicators ==
    << <<"h", "o", "p", "e", "l", "e", "s", "s">>,
       <<"w", "o", "r", "t", "h", "l", "e", "s", "s">>,
       <<"t", "r", "a", "p", "p", "e", "d">>,
       <<"b", "u", "r", "d", "e", "n">>,
       <<"d", "e", "s", "p", "e", "r", "a", "t", "e">>,
       <<"o", "v", "e", "r", "w", "h", "e", "l", "m", "e", "d">>,
       <<"c", "a", "n", "'", "t", " ", "c", "o", "p", "e">>,
       <<"g", "i", "v", "e", " ", "u", "p">>,
       <<"n", "o", " ", "w", "a", "y", " ", "o", "u", "t">>,
       <<"p", "o", "i", "n", "t", "l", "e", "s", "s">>,
       <<"u", "s", "e", "l", "e", "s", "s">>,
       <<"h", "a", "t", "e", " ", "m", "y", "s", "e", "l", "f">> >>

depression_keywords ==
    << <<"s", "a", "d">>,
       <<"d", "e", "p", "r", "e", "s", "s", "e", "d">>,
       <<"d", "e", "p", "r", "e", "s", "s", "i", "o", "n">>,
       <<"d", "o", "w", "n">>,
       <<"h", "o", "p", "e", "l", "e", "s", "s">>,
       <<"e", "m", "p", "t", "y">>,
       <<"w", "o", "r", "t", "h", "l", "e", "s", "s">> >>

anxiety_keywords ==
    << <<"a", "n", "x", "i", "o", "u", "s">>,
       <<"a", "n", "x", "i", "e", "t", "y">>,
       <<"w", "o", "r", "r", "i", "e", "d">>,
       <<"w", "o", "r", "r", "y">>,
       <<"n", "e", "r", "v", "o", "u", "s">>,
       <<"p", "a", "n", "i", "c">>,
       <<"f", "e", "a", "r">> >>

high_frequency_words ==
    << <<"a", "l", "w", "a", "y", "s">>,
       <<"c", "o", "n", "s", "t", "a", "n", "t", "l", "y">>,
       <<"e", "v", "e", "r", "y", " ", "d", "a", "y">>,
       <<"a", "l", "l", " ", "t", "h", "e", " ", "t", "i", "m", "e">>,
       <<"n", "e", "v", "e", "r", " ", "s", "t", "o", "p", "s">> >>

medium_frequency_words ==
    << <<"o", "f", "t", "e", "n">>,
       <<"f", "r", "e", "q", "u", "e", "n", "t", "l", "y">>,
       <<"m", "o", "s", "t", " ", "d", "a", "y", "s">>,
       <<"u", "s", "u", "a", "l", "l", "y">> >>

low_frequency_words ==
    << <<"s", "o", "m", "e", "t", "i", "m", "e", "s">>,
       <<"o", "c", "c", "a", "s", "i", "o", "n", "a", "l", "l", "y">>,
       <<"f", "e", "w", " ", "t", "i", "m", "e", "s">>,
       <<"n", "o", "w", " ", "a", "n", "d", " ", "t", "h", "e", "n">> >>

minimal_frequency_words ==
    << <<"n", "e", "v", "e", "r">>,
       <<"n", "o", "t", " ", "a", "t", " ", "a", "l", "l">>,
       <<"r", "a", "r", "e", "l", "y">>,
       <<"h", "a", "r", "d", "l", "y", " ", "e", "v", "e", "r">> >>

Messages ==
    << <<>>,
       <<" ", " ", " ">>,
       <<"B", "o", "b">>,
       <<" ", "\t", "A", "n", "n", " ", "L", "e", "e", " ">>,
       <<"I", " ", "w", "a", "n", "t", " ", "t", "o", " ", "k", "i", "l", "l", " ", "m", "y", "s", "e", "l", "f">>,
       <<"I", " ", "f", "e", "e", "l", " ", "h", "o", "p", "e", "l", "e", "s", "s">>,
       <<"I", "'", "v", "e", " ", "b", "e", "e", "n", " ", "r", "e", "a", "l", "l", "y", " ", "a", "n", "x", "i", "o", "u", "s", " ", "a", "n", "d", " ", "w", "o", "r", "r", "i", "e", "d">>,
       <<"S", "A", "D", " ", "a", "n", "d", " ", "d", "o", "w", "n">>,
       <<"s", "a", "d", " ", "b", "u", "t", " ", "n", "e", "r", "v", "o", "u", "s">>,
       <<"n", "e", "v", "e", "r">>,
       <<"o", "f", "t", "e", "n">>,
       <<"y", "e", "s", ",", " ", "n", "e", "a", "r", "l", "y", " ", "e", "v", "e", "r", "y", " ", "d", "a", "y", ",", " ", "I", "'", "v", "e", " ", "b", "e", "e", "n", " ", "t", "h", "i", "n", "k", "i", "n", "g", " ", "a", "b", "o", "u", "t", " ", "i", "t">> >>

TestUser == <<"T", "e", "s", "t", "U", "s", "e", "r">>

-----------------------------------------------------------------------------
(* safety_monitor.py *)

\* a crisis message is always a non-empty text; only its kind is kept
CrisisMessage == "crisis_message"

WarningMessage == "warning_message"

\* a Python value passed as an argument: a str with its characters, or a
\* value of another type (None, a number)
Str(chars) == [type |-> "str", chars |-> chars]

NoneValue == [type |-> "NoneType", chars |-> << >>]

IntValue == [type |-> "int", chars |-> << >>]

\* SafetyMonitor.__init__: the two word lists of the monitor it builds
SafetyMonitor(config_trigger_words) ==
    [critical_triggers |-> critical_triggers \o config_trigger_words,
     warning_indicators |-> warning_indicators]

\* variant: the CrisisResponse of a WARNING asks for the override as well
check_for_crisis_warning_override(self, text) ==
    IF text.type # "str" \/ text.chars = << >>
    THEN [level |-> "NONE", triggered_words |-> << >>, message |-> "",
          requires_override |-> FALSE]
    ELSE LET normalized_text == Strip(Lower(text.chars))
             triggered_words ==
                 SelectSeq(self.critical_triggers,
                           LAMBDA w : Contains(normalized_text, Lower(w)))
             warning_words ==
                 SelectSeq(self.warning_indicators,
                           LAMBDA w : Contains(normalized_text, Lower(w)))
         IN  IF triggered_words # << >>
             THEN [level |-> "CRITICAL", triggered_words |-> triggered_words,
                   message |-> CrisisMessage, requires_override |-> TRUE]
             ELSE IF warning_words # << >>
             THEN [level |-> "WARNING", triggered_words |-> warning_words,
                   message |-> WarningMessage, requires_override |-> TRUE]
             ELSE [level |-> "NONE", triggered_words |-> << >>, message |-> "",
                   requires_override |-> FALSE]

\* variant: no guard on the argument, so that lower() is called on whatever
\* was passed and raises on a value that is no str
check_for_crisis_unguarded(self, text) ==
    IF text.type # "str"
    THEN [level |-> "AttributeError", triggered_words |-> << >>,
          message |-> "", requires_override |-> FALSE]
    ELSE LET normalized_text == Strip(Lower(text.chars))
             triggered_words ==
                 SelectSeq(self.critical_triggers,
                           LAMBDA w : Contains(normalized_text, Lower(w)))
             warning_words ==
                 SelectSeq(self.warning_indicators,
                           LAMBDA w : Contains(normalized_text, Lower(w)))
         IN  IF triggered_words # << >>
             THEN [level |-> "CRITICAL", triggered_words |-> triggered_words,
                   message |-> CrisisMessage, requires_override |-> TRUE]
             ELSE IF warning_words # << >>
             THEN [level |-> "WARNING", triggered_words |-> warning_words,
                   message |-> WarningMessage, requires_override |-> FALSE]
             ELSE [level |-> "NONE", triggered_words |-> << >>, message |-> "",
                   requires_override |-> FALSE]

\* SafetyMonitor.check_for_crisis on the monitor self: the CrisisResponse
\* dataclass it returns (without its timestamp)
check_for_crisis_of(self, text) ==
    IF text.type # "str" \/ text.chars = << >>
    THEN [level |-> "NONE", triggered_words |-> << >>, message |-> "",
          requires_override |-> FALSE]
    ELSE LET normalized_text == Strip(Lower(text.chars))
             triggered_words ==
                 SelectSeq(self.critical_triggers,
                           LAMBDA w : Contains(normalized_text, Lower(w)))
             warning_words ==
                 SelectSeq(self.warning_indicators,
                           LAMBDA w : Contains(normalized_text, Lower(w)))
         IN  IF triggered_words # << >>
             THEN [level |-> "CRITICAL", triggered_words |-> triggered_words,
                   message |-> CrisisMessage, requires_override |-> TRUE]
             ELSE IF warning_words # << >>
             THEN [level |-> "WARNING", triggered_words |-> warning_words,
                   message |-> WarningMessage, requires_override |-> FALSE]
             ELSE [level |-> "NONE", triggered_words |-> << >>, message |-> "",
                   requires_override |-> FALSE]

\* check_for_crisis of the monitor built without configured words, on a str
check_for_crisis(text) == check_for_crisis_of(SafetyMonitor(<< >>), Str(text))

\* variant: the words matched by a call are kept in the monitor's list
check_for_crisis_call_keeping(self, text) ==
    LET response == check_for_crisis_of(self, text)
    IN  [self |-> IF response.level = "CRITICAL"
                  THEN [self EXCEPT !.critical_triggers =
                                        @ \o response.triggered_words]
                  ELSE self,
         response |-> response]

\* a check_for_crisis call: the monitor it leaves behind and what it returns
check_for_crisis_call(self, text) ==
    [self |-> self, response |-> check_for_crisis_of(self, text)]

\* SafetyMonitor.add_trigger_words
add_trigger_words(self, words) ==
    [self EXCEPT !.critical_triggers = @ \o words]

\* SafetyMonitor.add_warning_words
add_warning_words(self, words) ==
    [self EXCEPT !.warning_indicators = @ \o words]

\* \w of Python's re on the characters the model uses
IsWordChar(c) ==
    \/ \E i \in 1..26 : c = LowerCase[i] \/ c = UpperCase[i]
    \/ c \in {"0", "1", "2", "3", "4", "5", "6", "7", "8", "9", "_"}

\* \b of Python's re: between the k-th and the (k+1)-th character of text
\* exactly one is a word character (outside the text counts as none)
WordBoundary(text, k) ==
    LET before == k >= 1 /\ IsWordChar(text[k])
        after == k < Len(text) /\ IsWordChar(text[k + 1])
    IN  before # after

\* words occurs in text right after its first i characters, re.IGNORECASE
OccursAt(text, words, i) ==
    /\ i + Len(words) <= Len(text)
    /\ \A j \in 1..Len(words) : LowerChar(text[i + j]) = LowerChar(words[j])

\* \b(w1|w2|...)\b matches in text right after its first i characters:
\* the set of the lengths matched
BoundedAt(text, alternatives, i) ==
    {Len(alternatives[k]) : k \in
        {k \in 1..Len(alternatives) :
            /\ OccursAt(text, alternatives[k], i)
            /\ WordBoundary(text, i)
            /\ WordBoundary(text, i + Len(alternatives[k]))}}

\* the patterns of the monitor: \b(first)\b, followed by .*\b(then)\b when
\* then is not empty
phq9_q9_positive_patterns ==
    << [first |->
           << <<"y", "e", "s">>,
              <<"s", "o", "m", "e", "t", "i", "m", "e", "s">>,
              <<"o", "f", "t", "e", "n">>,
              <<"n", "e", "a", "r", "l", "y", " ", "e", "v", "e", "r", "y", " ", "d", "a", "y">>,
              <<"s", "e", "v", "e", "r", "a", "l", " ", "d", "a", "y", "s">> >>,
        then |-> << >>],
       [first |->
           << <<"m", "o", "r", "e", " ", "t", "h", "a", "n", " ", "h", "a", "l", "f">>,
              <<"h", "a", "v", "e", " ", "t", "h", "o", "u", "g", "h", "t">>,
              <<"b", "e", "e", "n", " ", "t", "h", "i", "n", "k", "i", "n", "g">> >>,
        then |-> << >>],
       [first |->
           << <<"c", "r", "o", "s", "s", "e", "d", " ", "m", "y", " ", "m", "i", "n", "d">>,
              <<"c", "o", "n", "s", "i", "d", "e", "r", "e", "d">>,
              <<"c", "o", "n", "s", "i", "d", "e", "r", "i", "n", "g">>,
              <<"t", "h", "i", "n", "k", "i", "n", "g", " ", "a", "b", "o", "u", "t">> >>,
        then |-> << >>],
       [first |->
           << <<"t", "h", "o", "u", "g", "h", "t", " ", "o", "f">>,
              <<"t", "h", "o", "u", "g", "h", "t", "s", " ", "o", "f">>,
              <<"i", "d", "e", "a", " ", "o", "f">>,
              <<"w", "a", "n", "t", "i", "n", "g", " ", "t", "o">> >>,
        then |->
           << <<"d", "i", "e">>,
              <<"d", "e", "a", "t", "h">>,
              <<"h", "a", "r", "m">> >>] >>

phq9_q9_negative_patterns ==
    << [first |->
           << <<"n", "o">>,
              <<"n", "e", "v", "e", "r">>,
              <<"n", "o", "t", " ", "a", "t", " ", "a", "l", "l">>,
              <<"h", "a", "v", "e", "n", "'", "t">>,
              <<"d", "o", "n", "'", "t">> >>,
        then |-> << >>],
       [first |->
           << <<"a", "b", "s", "o", "l", "u", "t", "e", "l", "y", " ", "n", "o", "t">>,
              <<"d", "e", "f", "i", "n", "i", "t", "e", "l", "y", " ", "n", "o", "t">>,
              <<"o", "f", " ", "c", "o", "u", "r", "s", "e", " ", "n", "o", "t">> >>,
        then |-> << >>] >>

\* the pattern matches text with its first group starting right after the
\* first i characters (`.' matches no newline)
MatchesAt(pattern, text, i) ==
    \E n \in BoundedAt(text, pattern.first, i) :
        \/ pattern.then = << >>
        \/ \E j \in (i + n)..Len(text) :
              /\ BoundedAt(text, pattern.then, j) # {}
              /\ \A k \in (i + n + 1)..j : text[k] # "\n"

\* variant: re.match, which only looks at the start of the text
re_match(pattern, text) == MatchesAt(pattern, text, 0)

\* re.search(pattern, text, re.IGNORECASE) finds a match
re_search(pattern, text) ==
    \E i \in 0..Len(text) : MatchesAt(pattern, text, i)

\* check_phq9_question9 with the positive patterns tried before the
\* negative ones
check_phq9_question9_positive_first(response) ==
    IF response.type # "str" \/ response.chars = << >>
    THEN FALSE
    ELSE LET normalized_response == Strip(Lower(response.chars))
         IN  \E p \in 1..Len(phq9_q9_positive_patterns) :
                 re_search(phq9_q9_positive_patterns[p], normalized_response)

\* SafetyMonitor.check_phq9_question9
check_phq9_question9(response) ==
    IF response.type # "str" \/ response.chars = << >>
    THEN FALSE
    ELSE LET normalized_response == Strip(Lower(response.chars))
         IN  IF /\ \E p \in 1..Len(phq9_q9_negative_patterns) :
                      re_search(phq9_q9_negative_patterns[p],
                                normalized_response)
                /\ Len(normalized_response) < 20
             THEN FALSE
             ELSE \E p \in 1..Len(phq9_q9_positive_patterns) :
                      re_search(phq9_q9_positive_patterns[p],
                                normalized_response)

\* CrisisOverrideHandler.__init__
CrisisOverrideHandler(safety_monitor) ==
    [safety_monitor |-> safety_monitor,
     crisis_detected |-> FALSE,
     crisis_timestamp |-> "None"]

\* the fields of a handler that are its own: the variable handler holds
\* these, and the handler's safety_monitor is the object that the variable
\* monitor holds
own_state(self) ==
    [crisis_detected |-> self.crisis_detected,
     crisis_timestamp |-> self.crisis_timestamp]

\* the handler, its safety_monitor followed
with_safety_monitor(state, safety_monitor) ==
    [safety_monitor |-> safety_monitor,
     crisis_detected |-> state.crisis_detected,
     crisis_timestamp |-> state.crisis_timestamp]

-----------------------------------------------------------------------------
(* gemini_client.py: the scoring and wording collaborator *)

\* what model.generate_content gives back to map_response_to_score:
\* a parsed SCORE line in 0..3, or -1 for an exception, an empty text or
\* a reply that cannot be parsed
ScoreReplies == -1 .. 3

\* GeminiClient._fallback_scoring
_fallback_scoring(user_response) ==
    LET response_lower == Lower(user_response)
    IN  IF AnyIn(high_frequency_words, response_lower) THEN 3
        ELSE IF AnyIn(medium_frequency_words, response_lower) THEN 2
        ELSE IF AnyIn(low_frequency_words, response_lower) THEN 1
        ELSE IF AnyIn(minimal_frequency_words, response_lower) THEN 0
        ELSE 1

\* variant: a parsed score is returned without the range check
map_response_to_score_unvalidated(user_response, reply) ==
    IF reply # -1 THEN reply ELSE _fallback_scoring(user_response)

\* GeminiClient.map_response_to_score (the score of the returned pair)
map_response_to_score(user_response, reply) ==
    IF reply \in 0..3 THEN reply ELSE _fallback_scoring(user_response)

RECURSIVE SplitOn(_, _)
\* str.split(sep) for a separator of one character
SplitOn(s, sep) ==
    LET cuts == {i \in 1..Len(s) : s[i] = sep}
    IN  IF cuts = {} THEN << s >>
        ELSE << SubSeq(s, 1, SetMin(cuts) - 1) >>
             \o SplitOn(SubSeq(s, SetMin(cuts) + 1, Len(s)), sep)

\* str.startswith
StartsWith(s, prefix) ==
    /\ Len(prefix) <= Len(s)
    /\ SubSeq(s, 1, Len(prefix)) = prefix

\* next((line for line in lines if line.startswith(prefix)), None), with
\* << >> for None
FirstLineWith(lines, prefix) ==
    LET hits == {i \in 1..Len(lines) : StartsWith(lines[i], prefix)}
    IN  IF hits = {} THEN << >> ELSE lines[SetMin(hits)]

Digits == << "0", "1", "2", "3", "4", "5", "6", "7", "8", "9" >>

IsDigit(c) == \E d \in 1..10 : Digits[d] = c

DigitValue(c) == (CHOOSE d \in 1..10 : Digits[d] = c) - 1

\* the digits of s after an optional sign
Unsigned(s) ==
    IF s # << >> /\ Head(s) \in {"+", "-"} THEN Tail(s) ELSE s

\* int(s) does not raise ValueError: an optional sign and decimal digits
IsInt(s) ==
    /\ Unsigned(s) # << >>
    /\ \A i \in 1..Len(Unsigned(s)) : IsDigit(Unsigned(s)[i])

RECURSIVE DigitsValue(_)
DigitsValue(s) ==
    IF s = << >> THEN 0
    ELSE 10 * DigitsValue(SubSeq(s, 1, Len(s) - 1)) + DigitValue(s[Len(s)])

\* int(s) for a string that int() accepts
IntOf(s) ==
    IF Head(s) = "-" THEN 0 - DigitsValue(Unsigned(s))
    ELSE DigitsValue(Unsigned(s))

SCORE == <<"S", "C", "O", "R", "E", ":">>

EXPLANATION == <<"E", "X", "P", "L", "A", "N", "A", "T", "I", "O", "N", ":">>

\* what map_response_to_score reads out of the answer of generate_content:
\* the integer of the SCORE line, or -1 when the call raises, the text is
\* empty, a line is missing or int() raises (content.raises, content.text)
parsed_score(content) ==
    IF content.raises \/ content.text = << >>
    THEN -1
    ELSE LET lines == SplitOn(Strip(content.text), "\n")
             score_line == FirstLineWith(lines, SCORE)
             explanation_line == FirstLineWith(lines, EXPLANATION)
         IN  IF score_line = << >> \/ explanation_line = << >>
             THEN -1
             ELSE LET field == Strip(SplitOn(score_line, ":")[2])
                  IN  IF IsInt(field) THEN IntOf(field) ELSE -1

\* GeminiClient.map_response_to_score given the answer of generate_content
map_response_to_score_of(user_response, content) ==
    map_response_to_score(user_response, parsed_score(content))

\* GeminiClient.generate_response: the model's text or the fallback text for
\* the context; it never raises.  Only the context of the wording is kept.
generate_response(context) == context

-----------------------------------------------------------------------------
(* session_manager.py: ConversationPhase, ScreeningTool, SessionData and   *)
(* the SessionManager operations used by the conversation flow             *)

ConversationPhase ==
    {"GREETING", "TRIAGE", "SCREENING", "RESULTS", "CRISIS_RESPONSE"}

ScreeningTool == {"PHQ9", "GAD7", "GHQ12"}

\* Python's None for selected_tool and for absent dict values
None == "None"

\* user_name = None (an empty name is falsy as well)
NoName == << >>

\* SessionManager.create_session: a fresh SessionData
create_session(user_name) ==
    [user_name |-> user_name,
     current_phase |-> "GREETING",
     selected_tool |-> None,
     responses |-> << >>,
     conversation_history |-> << >>,
     crisis_detected |-> FALSE,
     completed |-> FALSE,
     last_activity |-> "recent"]

\* SessionData.is_expired: last_activity lies further back than the session
\* timeout; of the timestamp only this is kept ("recent" or "timed_out")
is_expired(session) == session.last_activity = "timed_out"

\* get_session that leaves expiry to the reaper
get_session_until_reaped(store, session_id) ==
    IF session_id \in DOMAIN store
    THEN << store[session_id] >>
    ELSE << >>

\* SessionManager.get_session: the SessionData of a session that exists and
\* is not expired, as a sequence of one element; << >> for Python's None
get_session(store, session_id) ==
    IF session_id \in DOMAIN store /\ ~is_expired(store[session_id])
    THEN << store[session_id] >>
    ELSE << >>

\* max_sessions of the session manager of the tests' setup
DefaultMaxSessions == 100

\* SessionManager.__init__: the manager's own fields (its sessions are the
\* variable sessions); created counts the sessions created so far, and a
\* session's id is its number in the order of creation; running says that
\* the background reaper is scheduled; locks holds the ids of the sessions
\* that an operation in progress has locked
SessionManager(max_sessions) ==
    [max_sessions |-> max_sessions, created |-> 0, running |-> TRUE,
     locks |-> {}]

\* SessionManager.update_session(session_id, **changes)
update_session(session, changes) ==
    [f \in DOMAIN session |->
        IF f \in DOMAIN changes THEN changes[f] ELSE session[f]]

\* SessionManager.add_response
add_response(session, question_id, user_text, score) ==
    [session EXCEPT !.responses =
        Append(@, [question_id |-> question_id, user_text |-> user_text,
                   mapped_score |-> score])]

\* SessionManager.add_conversation
add_conversation(session, user_message, ai_message, phase) ==
    [session EXCEPT !.conversation_history =
        Append(@, [user_message |-> user_message, ai_message |-> ai_message,
                   phase |-> phase])]

RECURSIVE SumScores(_)
SumScores(responses) ==
    IF responses = << >> THEN 0
    ELSE Head(responses).mapped_score + SumScores(Tail(responses))

\* SessionData.get_total_score
get_total_score(session) == SumScores(session.responses)

-----------------------------------------------------------------------------
(* conversation_flow.py *)

\* ConversationFlowManager._initialize_screening_questions: the ids, in order
screening_questions ==
    [tool \in ScreeningTool |->
        CASE tool = "PHQ9" ->
               << "phq9_1", "phq9_2", "phq9_3", "phq9_4", "phq9_5",
                  "phq9_6", "phq9_7", "phq9_8", "phq9_9" >>
          [] tool = "GAD7" ->
               << "gad7_1", "gad7_2", "gad7_3", "gad7_4", "gad7_5",
                  "gad7_6", "gad7_7" >>
          [] tool = "GHQ12" ->
               << "ghq12_1", "ghq12_2", "ghq12_3", "ghq12_4", "ghq12_5",
                  "ghq12_6", "ghq12_7", "ghq12_8", "ghq12_9", "ghq12_10",
                  "ghq12_11", "ghq12_12" >>]

\* the ConversationContext chosen for a screening tool
ScreeningContext(tool) ==
    IF tool = "PHQ9" THEN "phq9_screening"
    ELSE IF tool = "GAD7" THEN "gad7_screening"
    ELSE "ghq12_screening"

\* ConversationFlowManager._determine_screening_tool
_determine_screening_tool(user_message) ==
    LET message_lower == Lower(user_message)
        depression_score == Len(Matches(depression_keywords, message_lower))
        anxiety_score == Len(Matches(anxiety_keywords, message_lower))
    IN  IF depression_score > anxiety_score THEN "PHQ9"
        ELSE IF anxiety_score > depression_score THEN "GAD7"
        ELSE "GHQ12"

\* variant: the moderately_severe band of PHQ9 ends below its upper bound
_calculate_severity_level_exclusive(screening_tool, total_score) ==
    IF screening_tool = "PHQ9"
    THEN IF total_score <= 4 THEN "minimal"
         ELSE IF total_score <= 9 THEN "mild"
         ELSE IF total_score <= 14 THEN "moderate"
         ELSE IF total_score < 19 THEN "moderately_severe"
         ELSE "severe"
    ELSE IF screening_tool = "GAD7"
    THEN IF total_score <= 4 THEN "minimal"
         ELSE IF total_score <= 9 THEN "mild"
         ELSE IF total_score <= 14 THEN "moderate"
         ELSE "severe"
    ELSE IF total_score <= 11 THEN "minimal"
         ELSE IF total_score <= 15 THEN "mild"
         ELSE IF total_score <= 20 THEN "moderate"
         ELSE "severe"

\* ConversationFlowManager._calculate_severity_level
_calculate_severity_level(screening_tool, total_score) ==
    IF screening_tool = "PHQ9"
    THEN IF total_score <= 4 THEN "minimal"
         ELSE IF total_score <= 9 THEN "mild"
         ELSE IF total_score <= 14 THEN "moderate"
         ELSE IF total_score <= 19 THEN "moderately_severe"
         ELSE "severe"
    ELSE IF screening_tool = "GAD7"
    THEN IF total_score <= 4 THEN "minimal"
         ELSE IF total_score <= 9 THEN "mild"
         ELSE IF total_score <= 14 THEN "moderate"
         ELSE "severe"
    ELSE IF total_score <= 11 THEN "minimal"
         ELSE IF total_score <= 15 THEN "mild"
         ELSE IF total_score <= 20 THEN "moderate"
         ELSE "severe"

\* ConversationFlowManager._get_error_response
_get_error_response(session, error_message) ==
    [session |-> session,
     result |-> [error |-> error_message,
                 ai_response |-> "error_apology",
                 current_phase |-> session.current_phase,
                 crisis_detected |-> FALSE]]

\* ConversationFlowManager._handle_greeting_phase
_handle_greeting_phase(session, user_message) ==
    IF session.user_name = NoName /\ Strip(user_message) # << >>
    THEN LET potential_name == FirstToken(user_message)
             s1 == update_session(session, [user_name |-> potential_name])
             ai_response == generate_response("background_check")
             s2 == update_session(s1, [current_phase |-> "TRIAGE"])
             s3 == add_conversation(s2, user_message, ai_response, "TRIAGE")
         IN  [session |-> s3,
              result |-> [ai_response |-> ai_response,
                          current_phase |-> "TRIAGE",
                          crisis_detected |-> FALSE,
                          next_action |-> "triage_question"]]
    ELSE LET ai_response == generate_response("greeting")
             s1 == add_conversation(session, user_message, ai_response,
                                    "GREETING")
         IN  [session |-> s1,
              result |-> [ai_response |-> ai_response,
                          current_phase |-> "GREETING",
                          crisis_detected |-> FALSE,
                          next_action |-> "collect_name"]]

\* ConversationFlowManager._handle_triage_phase
_handle_triage_phase(session, user_message) ==
    LET screening_tool == _determine_screening_tool(user_message)
        s1 == update_session(session, [selected_tool |-> screening_tool,
                                       current_phase |-> "SCREENING"])
        ai_response == generate_response(ScreeningContext(screening_tool))
        s2 == add_conversation(s1, user_message, ai_response, "SCREENING")
    IN  [session |-> s2,
         result |-> [ai_response |-> ai_response,
                     current_phase |-> "SCREENING",
                     crisis_detected |-> FALSE,
                     selected_tool |-> screening_tool,
                     question_number |-> 1,
                     next_action |-> "screening_question"]]

\* ConversationFlowManager._handle_phq9_q9_crisis
_handle_phq9_q9_crisis(session, user_message, score) ==
    LET s1 == update_session(session, [crisis_detected |-> TRUE,
                                       current_phase |-> "CRISIS_RESPONSE"])
        s2 == add_response(s1, "phq9_9", user_message, score)
        s3 == add_conversation(s2, user_message, "phq9_q9_crisis_message",
                               "CRISIS_RESPONSE")
    IN  [session |-> s3,
         result |-> [ai_response |-> "phq9_q9_crisis_message",
                     current_phase |-> "CRISIS_RESPONSE",
                     crisis_detected |-> TRUE,
                     crisis_trigger |-> "PHQ9_Q9",
                     next_action |-> "crisis_intervention"]]

\* ConversationFlowManager._transition_to_results
_transition_to_results(session, user_message, reply) ==
    LET questions == screening_questions[session.selected_tool]
        current_question_index == Len(session.responses)
        s1 == IF Strip(user_message) # << >>
                 /\ current_question_index < Len(questions)
              THEN add_response(session,
                                questions[current_question_index + 1],
                                user_message,
                                map_response_to_score(user_message, reply))
              ELSE session
        s2 == update_session(s1, [current_phase |-> "RESULTS"])
        total_score == get_total_score(s2)
        severity_level ==
            _calculate_severity_level(s2.selected_tool, total_score)
        ai_response == generate_response("results_explanation")
        s3 == update_session(s2, [completed |-> TRUE])
        s4 == add_conversation(s3, user_message, ai_response, "RESULTS")
    IN  [session |-> s4,
         result |-> [ai_response |-> ai_response,
                     current_phase |-> "RESULTS",
                     crisis_detected |-> FALSE,
                     total_score |-> total_score,
                     severity_level |-> severity_level,
                     screening_tool |-> s2.selected_tool,
                     completed |-> TRUE,
                     next_action |-> "screening_complete"]]

\* ConversationFlowManager._handle_screening_phase
_handle_screening_phase(session, user_message, reply) ==
    IF session.selected_tool = None
    THEN _get_error_response(session, "No screening tool selected")
    ELSE
    LET screening_tool == session.selected_tool
        questions == screening_questions[screening_tool]
        current_question_index == Len(session.responses)
    IN  IF current_question_index >= Len(questions)
        THEN _transition_to_results(session, user_message, reply)
        ELSE
        LET \* questions[current_question_index - 1], or questions[0]
            current_question ==
                IF current_question_index > 0
                THEN questions[current_question_index]
                ELSE questions[1]
            score == map_response_to_score(user_message, reply)
        IN  IF current_question_index > 0 /\ screening_tool = "PHQ9"
               /\ current_question = "phq9_9" /\ score > 0
            THEN _handle_phq9_q9_crisis(session, user_message, score)
            ELSE
            LET s1 == IF current_question_index > 0
                      THEN add_response(session, current_question,
                                        user_message, score)
                      ELSE session
                \* next_question = questions[current_question_index]
                ai_response ==
                    generate_response(ScreeningContext(screening_tool))
                s2 == add_conversation(s1, user_message, ai_response,
                                       "SCREENING")
            IN  [session |-> s2,
                 result |-> [ai_response |-> ai_response,
                             current_phase |-> "SCREENING",
                             crisis_detected |-> FALSE,
                             selected_tool |-> screening_tool,
                             question_number |-> current_question_index + 1,
                             next_action |-> "screening_question"]]

\* ConversationFlowManager._handle_results_phase
_handle_results_phase(session, user_message) ==
    IF session.selected_tool = None
    THEN \* session.selected_tool.value raises AttributeError
         _get_error_response(session, "AttributeError")
    ELSE
    LET total_score == get_total_score(session)
        severity_level ==
            _calculate_severity_level(session.selected_tool, total_score)
        ai_response == generate_response("results_explanation")
        s1 == update_session(session, [completed |-> TRUE])
        s2 == add_conversation(s1, user_message, ai_response, "RESULTS")
    IN  [session |-> s2,
         result |-> [ai_response |-> ai_response,
                     current_phase |-> "RESULTS",
                     crisis_detected |-> FALSE,
                     total_score |-> total_score,
                     severity_level |-> severity_level,
                     screening_tool |-> session.selected_tool,
                     completed |-> TRUE,
                     next_action |-> "screening_complete"]]

\* ConversationFlowManager._handle_unknown_phase
_handle_unknown_phase(session, user_message) ==
    LET s1 == update_session(session, [current_phase |-> "GREETING"])
    IN  [session |-> s1,
         result |-> [ai_response |-> "start_over_question",
                     current_phase |-> "GREETING",
                     crisis_detected |-> FALSE,
                     next_action |-> "restart"]]

\* ConversationFlowManager._handle_crisis_response
_handle_crisis_response(session, user_message, crisis_response) ==
    LET s1 == update_session(session, [crisis_detected |-> TRUE,
                                       current_phase |-> "CRISIS_RESPONSE"])
        crisis_message ==
            IF crisis_response.message # "" THEN crisis_response.message
            ELSE "default_crisis_message"
        s2 == add_conversation(s1, user_message, crisis_message,
                               "CRISIS_RESPONSE")
    IN  [session |-> s2,
         result |-> [ai_response |-> crisis_message,
                     current_phase |-> "CRISIS_RESPONSE",
                     crisis_detected |-> TRUE,
                     crisis_level |-> crisis_response.level,
                     next_action |-> "crisis_intervention"]]

\* every text the model hands to the classifier
Texts == {Messages[i] : i \in 1..Len(Messages)}

\* check_for_crisis tabulated over Texts (the classifier is a pure function)
crisis_table == {<< t, check_for_crisis(t) >> : t \in Texts}

safety_monitor_check_for_crisis(text) ==
    (CHOOSE p \in crisis_table : p[1] = text)[2]

\* variant: the attribute that the CrisisResponse dataclass declares
OverrideAttribute_declared == "requires_override"

\* the attribute of the CrisisResponse that process_user_message reads
OverrideAttribute == "should_override"

\* variant: the except clause also stores the flag it reports
process_exception_storing(session) ==
    [session |-> [session EXCEPT !.crisis_detected = FALSE],
     result |-> [error |-> "Failed to process message",
                 ai_response |-> "error_apology",
                 current_phase |-> session.current_phase,
                 crisis_detected |-> FALSE]]

\* the except clause of process_user_message
process_exception(session) ==
    [session |-> session,
     result |-> [error |-> "Failed to process message",
                 ai_response |-> "error_apology",
                 current_phase |-> session.current_phase,
                 crisis_detected |-> FALSE]]

\* process_user_message, "Route to appropriate phase handler": the handler
\* of the session's phase, the unknown-phase handler for any other value
route_by_phase(session, user_message, reply) ==
    IF session.current_phase = "GREETING"
    THEN _handle_greeting_phase(session, user_message)
    ELSE IF session.current_phase = "TRIAGE"
    THEN _handle_triage_phase(session, user_message)
    ELSE IF session.current_phase = "SCREENING"
    THEN _handle_screening_phase(session, user_message, reply)
    ELSE IF session.current_phase = "RESULTS"
    THEN _handle_results_phase(session, user_message)
    ELSE _handle_unknown_phase(session, user_message)

\* variant: a call in TRIAGE moves on to SCREENING and leaves the choice of
\* the tool for later
process_session_message_tool_later(session, user_message, reply) ==
    IF session.current_phase = "TRIAGE"
    THEN [session |-> update_session(session,
                                     [current_phase |-> "SCREENING"]),
          result |-> [ai_response |-> generate_response("background_check"),
                      current_phase |-> "SCREENING",
                      crisis_detected |-> FALSE,
                      next_action |-> "screening_question"]]
    ELSE process_exception(session)

\* ConversationFlowManager.process_user_message: the SessionData it leaves
\* behind and the dict it returns
process_session_message(session, user_message, reply) ==
    LET crisis_response == safety_monitor_check_for_crisis(user_message)
    IN  IF OverrideAttribute \notin DOMAIN crisis_response
        THEN \* AttributeError, caught by the except clause
             process_exception(session)
        ELSE IF crisis_response[OverrideAttribute]
        THEN _handle_crisis_response(session, user_message, crisis_response)
        ELSE route_by_phase(session, user_message, reply)

\* variant: a call with an id that get_session does not find starts a
\* session under that id
process_user_message_creating(store, session_id, user_message, reply) ==
    IF get_session(store, session_id) = << >>
    THEN [store |-> [id \in DOMAIN store \cup {session_id} |->
                        IF id = session_id THEN create_session(NoName)
                        ELSE store[id]],
          result |-> [error |-> "Session not found or expired",
                      ai_response |-> None,
                      current_phase |-> None,
                      crisis_detected |-> FALSE]]
    ELSE LET out == process_session_message(store[session_id], user_message,
                                            reply)
         IN  [store |-> [store EXCEPT ![session_id] = out.session],
              result |-> out.result]

\* ConversationFlowManager.process_user_message on the store
process_user_message(store, session_id, user_message, reply) ==
    IF get_session(store, session_id) = << >>
    THEN [store |-> store,
          result |-> [error |-> "Session not found or expired",
                      ai_response |-> None,
                      current_phase |-> None,
                      crisis_detected |-> FALSE]]
    ELSE LET out == process_session_message(store[session_id], user_message,
                                            reply)
         IN  [store |-> [store EXCEPT ![session_id] = out.session],
              result |-> out.result]

-----------------------------------------------------------------------------
(* The state machine *)

NoCall == [session_id |-> 0, message |-> 0, result |-> [no_call |-> TRUE]]

\* field changes passed to update_session when the store is called directly
DirectUpdates ==
    {[current_phase |-> p] : p \in ConversationPhase}
    \cup {[current_phase |-> "SCREENING", selected_tool |-> t] :
            t \in ScreeningTool}
    \cup {[crisis_detected |-> b] : b \in BOOLEAN}
    \cup {[completed |-> TRUE]}

Init ==
    /\ sessions = << >>
    /\ manager = SessionManager(DefaultMaxSessions)
    /\ handler = own_state(CrisisOverrideHandler(SafetyMonitor(<< >>)))
    /\ last = NoCall
    /\ monitor = SafetyMonitor(<< >>)
    /\ earlier = NoCall

CreateSession ==
    \E session_id \in SessionIds \ DOMAIN sessions :
    \E user_name \in {NoName, TestUser} :
        /\ sessions' = [id \in DOMAIN sessions \cup {session_id} |->
                          IF id = session_id THEN create_session(user_name)
                          ELSE sessions[id]]
        /\ last' = NoCall
        /\ UNCHANGED << monitor, earlier, manager, handler >>

DeleteSession ==
    \E session_id \in DOMAIN sessions :
        /\ sessions' = [id \in DOMAIN sessions \ {session_id} |-> sessions[id]]
        /\ last' = NoCall
        /\ UNCHANGED << monitor, earlier, manager, handler >>

UpdateSession ==
    \E session_id \in DOMAIN sessions :
    \E changes \in DirectUpdates :
        /\ "selected_tool" \in DOMAIN changes =>
              sessions[session_id].selected_tool = None
        /\ sessions' = [sessions EXCEPT
                          ![session_id] = update_session(@, changes)]
        /\ last' = NoCall
        /\ UNCHANGED << monitor, earlier, manager, handler >>

\* responses holds the first answers of the tool's questionnaire, in order
IsPrefixOf(responses, tool) ==
    /\ Len(responses) <= Len(screening_questions[tool])
    /\ \A i \in 1..Len(responses) :
          responses[i].question_id = screening_questions[tool][i]

RECURSIVE add_responses(_, _, _, _)
\* add_response called for the next n questions of the tool, in order
add_responses(session, tool, score, n) ==
    IF n = 0 THEN session
    ELSE add_responses(
             add_response(session,
                          screening_questions[tool][Len(session.responses) + 1],
                          Messages[10], score),
             tool, score, n - 1)

AddResponse ==
    \E session_id \in DOMAIN sessions :
    \E tool \in ScreeningTool :
    \E score \in DirectScores :
    \E n \in DirectBatches :
        LET session == sessions[session_id]
        IN  /\ tool = session.selected_tool
            /\ IsPrefixOf(session.responses, tool)
            /\ Len(session.responses) + n <= Len(screening_questions[tool])
            /\ sessions' = [sessions EXCEPT ![session_id] =
                  add_responses(@, tool, score, n)]
            /\ last' = NoCall
            /\ UNCHANGED << monitor, earlier, manager, handler >>

AddConversation ==
    \E session_id \in DOMAIN sessions :
        /\ Len(sessions[session_id].conversation_history) < MaxHistory
        /\ sessions' = [sessions EXCEPT ![session_id] =
              add_conversation(@, Messages[3], "direct", "GREETING")]
        /\ last' = NoCall
        /\ UNCHANGED << monitor, earlier, manager, handler >>

ProcessMessage ==
    \E session_id \in SessionIds :
    \E message \in 1..Len(Messages) :
    \E reply \in ScoreReplies :
        /\ session_id \in DOMAIN sessions =>
              Len(sessions[session_id].conversation_history) < MaxHistory
        /\ LET out == process_user_message(sessions, session_id,
                                           Messages[message], reply)
           IN  /\ sessions' = out.store
               /\ last' = [session_id |-> session_id, message |-> message,
                           result |-> out.result]
               /\ UNCHANGED << monitor, earlier, manager, handler >>

Next ==
    \/ CreateSession
    \/ DeleteSession
    \/ UpdateSession
    \/ AddResponse
    \/ AddConversation
    \/ ProcessMessage

Spec == Init /\ [][Next]_vars

-----------------------------------------------------------------------------
(* Properties *)

\* the last operation was a process_user_message call on a live session
CalledLive == last.session_id \in DOMAIN sessions

\* the session the last call was made on, and the text it was given
CalledSession == sessions[last.session_id]

CalledText == Messages[last.message]

\* this step is a process_user_message call on a live session
ProcessStep ==
    /\ last'.session_id \in DOMAIN sessions
    /\ last' # last \/ sessions' # sessions

Pre == sessions[last'.session_id]

Post == sessions'[last'.session_id]

StepText == Messages[last'.message]

StepResult == last'.result

Critical(text) == safety_monitor_check_for_crisis(text).level = "CRITICAL"

QuestionCount(tool) == Len(screening_questions[tool])

\* C1: a call whose text is classified CRITICAL ends, from any phase, with
\* phase CRISIS_RESPONSE, crisis_detected set and crisis_level CRITICAL in the
\* result, and touches neither user_name, selected_tool nor responses.
C1_SafetyPreemption ==
    [][ProcessStep /\ Critical(StepText) =>
          /\ Post.current_phase = "CRISIS_RESPONSE"
          /\ Post.crisis_detected
          /\ "crisis_level" \in DOMAIN StepResult
          /\ StepResult.crisis_level = "CRITICAL"
          /\ Post.user_name = Pre.user_name
          /\ Post.selected_tool = Pre.selected_tool
          /\ Post.responses = Pre.responses]_vars

C3_ScreeningProgress ==
    [][ProcessStep /\ Pre.current_phase = "SCREENING"
          /\ Pre.selected_tool # None
          /\ Len(Pre.responses) <= QuestionCount(Pre.selected_tool)
          /\ ~(Pre.selected_tool = "PHQ9" /\ Len(Pre.responses) = 8)
          /\ Strip(StepText) # << >> /\ ~Critical(StepText) =>
          \/ /\ Len(Post.responses) = Len(Pre.responses) + 1
             /\ Post.current_phase \in {"SCREENING", "RESULTS"}
          \/ /\ Post.current_phase = "RESULTS"
             /\ Post.completed
             /\ Len(Post.responses) = QuestionCount(Post.selected_tool)]_vars

\* C4: when the first eight PHQ-9 items are recorded, the next non-CRITICAL
\* answer is recorded for phq9_9, and if its score is above 0 the call ends in
\* CRISIS_RESPONSE with crisis_detected set.
C4_SelfHarmShortCircuit ==
    [][ProcessStep /\ Pre.current_phase = "SCREENING"
          /\ Pre.selected_tool = "PHQ9"
          /\ Len(Pre.responses) = 8 /\ IsPrefixOf(Pre.responses, "PHQ9")
          /\ Strip(StepText) # << >> /\ ~Critical(StepText) =>
          /\ Len(Post.responses) = 9
          /\ Post.responses[9].question_id = "phq9_9"
          /\ Post.responses[9].mapped_score > 0 =>
                /\ Post.current_phase = "CRISIS_RESPONSE"
                /\ Post.crisis_detected]_vars

\* C5: a call on a session whose crisis_detected flag is set leaves it set.
C5_CrisisLatched ==
    [][ProcessStep /\ Pre.crisis_detected => Post.crisis_detected]_vars

C5_Witness ==
    /\ CalledLive
    /\ CalledSession.crisis_detected
    /\ "error" \in DOMAIN last.result

WithinQuestionCount(session) ==
    session.selected_tool # None =>
        Len(session.responses) <= QuestionCount(session.selected_tool)

InQuestionOrder(session) ==
    IF session.selected_tool = None
    THEN session.responses = << >>
    ELSE IsPrefixOf(session.responses, session.selected_tool)

RECURSIVE LeadingToken(_)
LeadingToken(text) ==
    IF text = << >> THEN << >>
    ELSE IF IsSpace(Head(text)) THEN << >>
    ELSE << Head(text) >> \o LeadingToken(Tail(text))

RECURSIVE SkipSpaces(_)
SkipSpaces(text) ==
    IF text = << >> THEN << >>
    ELSE IF IsSpace(Head(text)) THEN SkipSpaces(Tail(text))
    ELSE text

\* C9: in GREETING with no user_name, a non-CRITICAL text with a non-space
\* character sets user_name to its first token and moves to TRIAGE; an empty
\* or all-space text leaves GREETING and the unset user_name.
C9_GreetingRule ==
    [][ProcessStep /\ Pre.current_phase = "GREETING"
          /\ Pre.user_name = NoName /\ ~Critical(StepText) =>
          IF SkipSpaces(StepText) # << >>
          THEN /\ Post.user_name = LeadingToken(SkipSpaces(StepText))
               /\ Post.current_phase = "TRIAGE"
          ELSE /\ Post.user_name = NoName
               /\ Post.current_phase = "GREETING"]_vars

\* the number of keywords of a list that occur in a text
KeywordCount(words, text) ==
    Cardinality({i \in 1..Len(words) : Contains(Lower(text), words[i])})

\* C10: in TRIAGE a non-CRITICAL text selects PHQ9 on strictly more
\* depression matches, GAD7 on strictly more anxiety matches and GHQ12 on a
\* tie; the session gets that tool and phase SCREENING, and the result
\* reports question number 1.
C10_TriageRule ==
    [][ProcessStep /\ Pre.current_phase = "TRIAGE" /\ ~Critical(StepText) =>
          LET d == KeywordCount(depression_keywords, StepText)
              a == KeywordCount(anxiety_keywords, StepText)
              tool == IF d > a THEN "PHQ9"
                      ELSE IF a > d THEN "GAD7" ELSE "GHQ12"
          IN  /\ Post.selected_tool = tool
              /\ Post.current_phase = "SCREENING"
              /\ "question_number" \in DOMAIN StepResult
              /\ StepResult.question_number = 1]_vars


-----------------------------------------------------------------------------
(* _calculate_severity_level on its own: every tool with every total score *)
(* its questionnaire can give                                              *)

\* the largest total of a tool: each answer scores at most 3
MaxTotal(tool) == 3 * QuestionCount(tool)

SeverityInit ==
    /\ sessions = << >>
    /\ manager = SessionManager(DefaultMaxSessions)
    /\ handler = own_state(CrisisOverrideHandler(SafetyMonitor(<< >>)))
    /\ monitor = SafetyMonitor(<< >>)
    /\ earlier = NoCall
    /\ \E screening_tool \in ScreeningTool :
       \E total_score \in 0..MaxTotal(screening_tool) :
           last = [call |-> "_calculate_severity_level",
                   screening_tool |-> screening_tool,
                   total_score |-> total_score,
                   returned |-> FALSE, result |-> None]

CalculateSeverity ==
    /\ last.call = "_calculate_severity_level"
    /\ ~last.returned
    /\ last' = [last EXCEPT
                  !.returned = TRUE,
                  !.result = _calculate_severity_level(last.screening_tool,
                                                       last.total_score)]
    /\ UNCHANGED << sessions, monitor, earlier, manager, handler >>

SeverityNext == CalculateSeverity

SpecSeverity == SeverityInit /\ [][SeverityNext]_vars

\* the bands of a tool, lowest first, each with its inclusive upper bound;
\* the last band has none
SeverityBands(tool) ==
    IF tool = "PHQ9"
    THEN << << 4, "minimal" >>, << 9, "mild" >>, << 14, "moderate" >>,
            << 19, "moderately_severe" >>, << MaxTotal(tool), "severe" >> >>
    ELSE IF tool = "GAD7"
    THEN << << 4, "minimal" >>, << 9, "mild" >>, << 14, "moderate" >>,
            << MaxTotal(tool), "severe" >> >>
    ELSE << << 11, "minimal" >>, << 15, "mild" >>, << 20, "moderate" >>,
            << MaxTotal(tool), "severe" >> >>

\* the position of the lowest band whose upper bound is not below the score
BandIndex(tool, score) ==
    SetMin({i \in 1..Len(SeverityBands(tool)) :
               score <= SeverityBands(tool)[i][1]})

\* the position of a band name among the bands of the tool
BandRank(tool, band) ==
    CHOOSE i \in 1..Len(SeverityBands(tool)) : SeverityBands(tool)[i][2] = band

\* C11: for every tool and every total score of its range the band returned
\* is the one the inclusive upper bounds give, and no lower score of the tool
\* gets a higher band.
C11_SeverityBanding ==
    last.returned =>
        /\ last.result =
              SeverityBands(last.screening_tool)
                  [BandIndex(last.screening_tool, last.total_score)][2]
        /\ \A lower \in 0..last.total_score :
              BandRank(last.screening_tool,
                       _calculate_severity_level(last.screening_tool, lower))
                  <= BandRank(last.screening_tool, last.result)

C11_Witness ==
    /\ last.returned
    /\ last.screening_tool = "PHQ9"
    /\ last.total_score = 19
    /\ last.result = "moderately_severe"

-----------------------------------------------------------------------------
(* Calls on a session that is already in RESULTS *)

\* C12: a non-CRITICAL call on a session in RESULTS appends no response,
\* reports as total_score the sum of the recorded scores, leaves selected_tool
\* and the phase RESULTS as they are, and leaves completed set.
C12_ResultsFollowUp ==
    [][ProcessStep /\ Pre.current_phase = "RESULTS"
          /\ Pre.selected_tool # None /\ ~Critical(StepText) =>
          /\ Post.responses = Pre.responses
          /\ "total_score" \in DOMAIN StepResult
          /\ StepResult.total_score = SumScores(Pre.responses)
          /\ Post.selected_tool = Pre.selected_tool
          /\ Post.current_phase = "RESULTS"
          /\ Post.completed]_vars

-----------------------------------------------------------------------------
(* Calls with a session id that get_session does not find: two ids, each   *)
(* absent, live or expired                                                 *)

LookupIds == {1, 2}

\* texts sent in these calls: a name, a critical text and a warning text
LookupMessages == {3, 5, 6}

LookupInit ==
    /\ sessions = << >>
    /\ manager = SessionManager(DefaultMaxSessions)
    /\ handler = own_state(CrisisOverrideHandler(SafetyMonitor(<< >>)))
    /\ last = NoCall
    /\ monitor = SafetyMonitor(<< >>)
    /\ earlier = NoCall

LookupCreate ==
    \E session_id \in LookupIds \ DOMAIN sessions :
        /\ sessions' = [id \in DOMAIN sessions \cup {session_id} |->
                          IF id = session_id THEN create_session(TestUser)
                          ELSE sessions[id]]
        /\ last' = NoCall
        /\ UNCHANGED << monitor, earlier, manager, handler >>

\* the timeout of a session passes: its last_activity now lies too far back
LookupExpire ==
    \E session_id \in DOMAIN sessions :
        /\ ~is_expired(sessions[session_id])
        /\ sessions' = [sessions EXCEPT
                          ![session_id].last_activity = "timed_out"]
        /\ last' = NoCall
        /\ UNCHANGED << monitor, earlier, manager, handler >>

LookupUpdate ==
    \E session_id \in DOMAIN sessions :
    \E phase \in ConversationPhase :
        /\ get_session(sessions, session_id) # << >>
        /\ sessions' = [sessions EXCEPT ![session_id] =
              update_session(@, [current_phase |-> phase])]
        /\ last' = NoCall
        /\ UNCHANGED << monitor, earlier, manager, handler >>

LookupProcess ==
    \E session_id \in LookupIds :
    \E message \in LookupMessages :
    \E reply \in ScoreReplies :
        LET out == process_user_message(sessions, session_id,
                                        Messages[message], reply)
        IN  /\ sessions' = out.store
            /\ last' = [session_id |-> session_id, message |-> message,
                        result |-> out.result]
            /\ UNCHANGED << monitor, earlier, manager, handler >>

LookupNext ==
    \/ LookupCreate
    \/ LookupExpire
    \/ LookupUpdate
    \/ LookupProcess

SpecLookup == LookupInit /\ [][LookupNext]_vars

\* this step is a process_user_message call with an id that get_session does
\* not find
NotFoundStep ==
    /\ last'.session_id \in LookupIds
    /\ get_session(sessions, last'.session_id) = << >>
    /\ last' # last \/ sessions' # sessions

\* C13: a call with an absent or expired session id returns a dict with an
\* error and leaves the store as it is: no session more, no session less and
\* no field of a stored session changed.
C13_NotFoundTouchesNothing ==
    [][NotFoundStep =>
          /\ "error" \in DOMAIN last'.result
          /\ sessions' = sessions]_vars

\* a call was made with the id of an expired session while another session
\* is live
C13_Witness ==
    /\ last.session_id \in DOMAIN sessions
    /\ is_expired(sessions[last.session_id])
    /\ "error" \in DOMAIN last.result
    /\ last.result.current_phase = None
    /\ \E other \in DOMAIN sessions :
          /\ other # last.session_id
          /\ get_session(sessions, other) # << >>
          /\ sessions[other].current_phase = "SCREENING"

-----------------------------------------------------------------------------
(* map_response_to_score on its own: answers of the user against answers   *)
(* of generate_content                                                     *)

\* answers of the user, each with the score the keyword rule gives it:
\* 3 for a high-frequency word, else 2 for a medium one, else 1 for a low
\* one, else 0 for a minimal one, else 1
ScoredTexts ==
    << << <<>>, 1 >>,
       << <<"i", "t", " ", "n", "e", "v", "e", "r", " ", "s", "t", "o", "p", "s">>, 3 >>,
       << <<"O", "f", "t", "e", "n", ",", " ", "b", "u", "t", " ", "n", "o", "t", " ", "A", "L", "W", "A", "Y", "S">>, 3 >>,
       << <<"o", "f", "t", "e", "n">>, 2 >>,
       << <<"h", "a", "r", "d", "l", "y", " ", "e", "v", "e", "r", ",", " ", "u", "s", "u", "a", "l", "l", "y", " ", "f", "i", "n", "e">>, 2 >>,
       << <<"S", "o", "m", "e", "t", "i", "m", "e", "s">>, 1 >>,
       << <<"r", "a", "r", "e", "l", "y", ",", " ", "n", "o", "w", " ", "a", "n", "d", " ", "t", "h", "e", "n">>, 1 >>,
       << <<"N", "e", "v", "e", "r">>, 0 >>,
       << <<"n", "o", "t", " ", "a", "t", " ", "a", "l", "l">>, 0 >>,
       << <<"I", " ", "d", "o", " ", "n", "o", "t", " ", "k", "n", "o", "w">>, 1 >>,
       << <<"M", "o", "s", "t", " ", "D", "a", "y", "s">>, 2 >> >>

\* what stands behind "SCORE:" in an answer of generate_content: whether it
\* is an integer and, if so, which
ScoreTokens ==
    << [chars |-> <<"0">>, integer |-> TRUE, value |-> 0],
       [chars |-> <<"3">>, integer |-> TRUE, value |-> 3],
       [chars |-> <<" ", "2", " ">>, integer |-> TRUE, value |-> 2],
       [chars |-> <<"+", "1">>, integer |-> TRUE, value |-> 1],
       [chars |-> <<"4">>, integer |-> TRUE, value |-> 4],
       [chars |-> <<"-", "1">>, integer |-> TRUE, value |-> -1],
       [chars |-> <<"1", "2">>, integer |-> TRUE, value |-> 12],
       [chars |-> <<"t", "w", "o">>, integer |-> FALSE, value |-> 0],
       [chars |-> <<"2", ".", "5">>, integer |-> FALSE, value |-> 0],
       [chars |-> <<>>, integer |-> FALSE, value |-> 0],
       [chars |-> <<"2", "/", "3">>, integer |-> FALSE, value |-> 0],
       [chars |-> <<"[", "2", "]">>, integer |-> FALSE, value |-> 0] >>

Preamble == <<"H", "e", "r", "e", " ", "i", "s", " ", "m", "y", " ", "a", "s", "s", "e", "s", "s", "m", "e", "n", "t", ".">>

ExplanationText == <<" ", "m", "a", "t", "c", "h", "e", "s", " ", "t", "h", "e", " ", "w", "o", "r", "d", "s", " ", "u", "s", "e", "d">>


\* the shapes of an answer of generate_content: the call raises, the text
\* is empty or blank, or it has lines
ReplyShapes ==
    {[kind |-> k, token |-> 1, score_line |-> FALSE,
      explanation_line |-> FALSE, preamble |-> FALSE] :
        k \in {"raises", "empty", "blank"}}
    \cup [kind : {"lines"}, token : 1..Len(ScoreTokens),
          score_line : BOOLEAN, explanation_line : BOOLEAN,
          preamble : BOOLEAN]

RECURSIVE JoinLines(_)
\* "\n".join(lines)
JoinLines(lines) ==
    IF lines = << >> THEN << >>
    ELSE IF Len(lines) = 1 THEN lines[1]
    ELSE lines[1] \o << "\n" >> \o JoinLines(Tail(lines))

\* the answer of generate_content that has the shape
ReplyOf(shape) ==
    IF shape.kind = "raises" THEN [raises |-> TRUE, text |-> << >>]
    ELSE IF shape.kind = "empty" THEN [raises |-> FALSE, text |-> << >>]
    ELSE IF shape.kind = "blank"
    THEN [raises |-> FALSE, text |-> << " ", "\n", " " >>]
    ELSE [raises |-> FALSE,
          text |-> JoinLines(
              (IF shape.preamble THEN << Preamble >> ELSE << >>)
              \o (IF shape.score_line
                  THEN << SCORE \o << " " >>
                          \o ScoreTokens[shape.token].chars >>
                  ELSE << >>)
              \o (IF shape.explanation_line
                  THEN << EXPLANATION \o ExplanationText >>
                  ELSE << >>))]

ScoringInit ==
    /\ sessions = << >>
    /\ manager = SessionManager(DefaultMaxSessions)
    /\ handler = own_state(CrisisOverrideHandler(SafetyMonitor(<< >>)))
    /\ monitor = SafetyMonitor(<< >>)
    /\ earlier = NoCall
    /\ \E user_response \in 1..Len(ScoredTexts) :
       \E shape \in ReplyShapes :
           last = [call |-> "map_response_to_score",
                   user_response |-> user_response,
                   shape |-> shape,
                   returned |-> FALSE, result |-> -1]

MapResponseToScore ==
    /\ last.call = "map_response_to_score"
    /\ ~last.returned
    /\ last' = [last EXCEPT
                  !.returned = TRUE,
                  !.result = map_response_to_score_of(
                                 ScoredTexts[last.user_response][1],
                                 ReplyOf(last.shape))]
    /\ UNCHANGED << sessions, monitor, earlier, manager, handler >>

ScoringNext == MapResponseToScore

SpecScoring == ScoringInit /\ [][ScoringNext]_vars

\* the answer has a SCORE line with an integer in 0..3 and an EXPLANATION
\* line
UsableReply(shape) ==
    /\ shape.kind = "lines"
    /\ shape.score_line
    /\ shape.explanation_line
    /\ ScoreTokens[shape.token].integer
    /\ ScoreTokens[shape.token].value \in 0..3

\* C15: map_response_to_score returns a score in 0..3, and whenever
\* generate_content raises, gives an empty text, leaves out the SCORE or the
\* EXPLANATION line, or gives a score that is no integer or lies outside
\* 0..3, the score returned is the one of the keyword rule.
C15_ScoringFallsBack ==
    last.returned =>
        /\ last.result \in 0..3
        /\ ~UsableReply(last.shape) =>
              last.result = ScoredTexts[last.user_response][2]

\* an answer "SCORE: 4" with its explanation, for a user text that has a
\* medium and a high frequency word
C15_Witness ==
    /\ last.returned
    /\ last.shape.kind = "lines"
    /\ last.shape.score_line /\ last.shape.explanation_line
    /\ ScoreTokens[last.shape.token].value = 4
    /\ last.user_response = 3
    /\ last.result = 3

-----------------------------------------------------------------------------
(* Calls during which the collaborator fails: generate_content raises,     *)
(* gives an empty text or a text without a usable SCORE line               *)

\* texts sent in these calls: a name, a triage text and an answer
CollaboratorMessages == {3, 7, 10}

FailingShapes ==
    {shape \in ReplyShapes : /\ ~UsableReply(shape)
                             /\ ~shape.preamble
                             /\ shape.token \in {1, 8}}

CollaboratorInit ==
    /\ sessions = << >>
    /\ manager = SessionManager(DefaultMaxSessions)
    /\ handler = own_state(CrisisOverrideHandler(SafetyMonitor(<< >>)))
    /\ last = NoCall
    /\ monitor = SafetyMonitor(<< >>)
    /\ earlier = NoCall

ProcessWhileFailing ==
    \E session_id \in DOMAIN sessions :
    \E message \in CollaboratorMessages :
    \E shape \in FailingShapes :
        LET out == process_user_message(sessions, session_id,
                                        Messages[message],
                                        parsed_score(ReplyOf(shape)))
        IN  /\ sessions' = out.store
            /\ last' = [session_id |-> session_id, message |-> message,
                        result |-> out.result, collaborator |-> shape.kind]
            /\ UNCHANGED << monitor, earlier, manager, handler >>

CollaboratorNext ==
    \/ CreateSession
    \/ UpdateSession
    \/ AddResponse
    \/ ProcessWhileFailing

SpecCollaborator == CollaboratorInit /\ [][CollaboratorNext]_vars

\* C14: a call on a live session during which the collaborator fails or
\* answers with malformed text returns a dict without an error, in every
\* phase whose handler has what it needs (a selected tool in SCREENING and
\* RESULTS); in GREETING a text naming the user still leads to TRIAGE.
C14_FailuresNotSurfaced ==
    [][/\ ProcessStep
       /\ "collaborator" \in DOMAIN last'
       /\ Pre.current_phase \in {"SCREENING", "RESULTS"} =>
             Pre.selected_tool # None
       => /\ "error" \notin DOMAIN StepResult
          /\ (Pre.current_phase = "GREETING" /\ Pre.user_name = NoName
              /\ Strip(StepText) # << >>) =>
                 Post.current_phase = "TRIAGE"]_vars

-----------------------------------------------------------------------------
(* One SafetyMonitor classifying text after text, its word lists extended  *)
(* in between                                                              *)

\* how often add_trigger_words and add_warning_words are each called
MaxAddedWords == 1

CustomTriggers == << <<"c", "u", "s", "t", "o", "m", "_", "t", "r", "i", "g", "g", "e", "r">> >>

CustomWarnings == << <<"t", "i", "r", "e", "d">> >>

\* arguments of the repeated calls: an empty, a harmless, a critical and a
\* warning text, None and two texts with the words that may be added
RepeatArgs ==
    {Str(Messages[i]) : i \in {1, 3, 5, 6}}
    \cup {NoneValue,
          Str(<<"I", " ", "f", "e", "e", "l", " ", "c", "u", "s", "t", "o", "m", "_", "t", "r", "i", "g", "g", "e", "r">>),
          Str(<<"S", "o", " ", "T", "I", "R", "E", "D", " ", "o", "f", " ", "i", "t">>)}

RepeatInit ==
    /\ sessions = << >>
    /\ manager = SessionManager(DefaultMaxSessions)
    /\ handler = own_state(CrisisOverrideHandler(SafetyMonitor(<< >>)))
    /\ last = NoCall
    /\ monitor = SafetyMonitor(<< >>)
    /\ earlier = NoCall

\* a check_for_crisis call; earlier keeps this call or the one it held
CheckForCrisis ==
    \E text \in RepeatArgs :
    \E keep \in BOOLEAN :
        LET out == check_for_crisis_call(monitor, text)
            call == [call |-> "check_for_crisis", text |-> text,
                     response |-> out.response]
        IN  /\ monitor' = out.self
            /\ last' = call
            /\ earlier' = IF keep THEN call ELSE earlier
            /\ UNCHANGED << sessions, manager, handler >>

\* the monitor is reconfigured: what it said before is no longer compared
AddTriggerWords ==
    /\ Len(monitor.critical_triggers)
          < Len(critical_triggers) + MaxAddedWords
    /\ monitor' = add_trigger_words(monitor, CustomTriggers)
    /\ last' = NoCall
    /\ earlier' = NoCall
    /\ UNCHANGED << sessions, manager, handler >>

AddWarningWords ==
    /\ Len(monitor.warning_indicators)
          < Len(warning_indicators) + MaxAddedWords
    /\ monitor' = add_warning_words(monitor, CustomWarnings)
    /\ last' = NoCall
    /\ earlier' = NoCall
    /\ UNCHANGED << sessions, manager, handler >>

RepeatNext ==
    \/ CheckForCrisis
    \/ AddTriggerWords
    \/ AddWarningWords

SpecRepeat == RepeatInit /\ [][RepeatNext]_vars

\* the last call and the kept earlier call classified the same text
SameTextAgain ==
    /\ "call" \in DOMAIN last
    /\ "call" \in DOMAIN earlier
    /\ last.text = earlier.text

\* C16: a check_for_crisis call returns the level, the triggered words and
\* the requires_override flag that an earlier call on the same monitor
\* returned for the same text, whatever was classified in between.
C16_ClassifierDeterminism ==
    SameTextAgain =>
        /\ last.response.level = earlier.response.level
        /\ last.response.triggered_words = earlier.response.triggered_words
        /\ last.response.requires_override
              = earlier.response.requires_override

\* the text with the added trigger word was classified twice by the
\* monitor that holds the added word
C16_Witness ==
    /\ SameTextAgain
    /\ last.text = Str(<<"I", " ", "f", "e", "e", "l", " ", "c", "u", "s", "t", "o", "m", "_", "t", "r", "i", "g", "g", "e", "r">>)
    /\ last.response.level = "CRITICAL"
    /\ Len(monitor.critical_triggers) > Len(critical_triggers)

-----------------------------------------------------------------------------
(* check_for_crisis on its own: texts built around each configured word,   *)
(* in several letter cases, paddings and contexts, and texts without any   *)

\* str.upper() on one character
UpperChar(c) ==
    IF \E i \in 1..26 : LowerCase[i] = c
    THEN UpperCase[CHOOSE i \in 1..26 : LowerCase[i] = c]
    ELSE c

\* str.upper()
Upper(s) == [i \in 1..Len(s) |-> UpperChar(s[i])]

\* lower and upper case in turn, as in sUiCiDe
MixedCase(s) ==
    [i \in 1..Len(s) |-> IF i % 2 = 1 THEN LowerChar(s[i])
                         ELSE UpperChar(s[i])]

LetterCases == {"as_is", "upper", "mixed"}

InCase(case, s) ==
    IF case = "upper" THEN Upper(s)
    ELSE IF case = "mixed" THEN MixedCase(s)
    ELSE s

Paddings == {"none", "spaces", "tab_newline"}

Padded(padding, s) ==
    IF padding = "spaces" THEN << " ", " " >> \o s \o << " ", " " >>
    ELSE IF padding = "tab_newline" THEN << "\t" >> \o s \o << "\n" >>
    ELSE s

ThinkingAbout == <<"I", " ", "a", "m", " ", "t", "h", "i", "n", "k", "i", "n", "g", " ", "a", "b", "o", "u", "t", " ">>

SometimesI == <<"S", "o", "m", "e", "t", "i", "m", "e", "s", " ", "I", " ">>

AndHopeless == <<" ", "a", "n", "d", " ", "I", " ", "f", "e", "e", "l", " ", "h", "o", "p", "e", "l", "e", "s", "s">>

WorthlessAnd == <<"I", " ", "f", "e", "e", "l", " ", "w", "o", "r", "t", "h", "l", "e", "s", "s", ",", " ">>

\* the contexts a word is put in; the last two bring a warning indicator
PlainContexts == {"alone", "thinking_about", "sometimes_i"}

WarningContexts == {"and_hopeless", "worthless_and"}

InContext(context, word) ==
    IF context = "thinking_about" THEN ThinkingAbout \o word
    ELSE IF context = "sometimes_i" THEN SometimesI \o word
    ELSE IF context = "and_hopeless" THEN word \o AndHopeless
    ELSE IF context = "worthless_and" THEN WorthlessAnd \o word
    ELSE word

\* texts that hold no configured word, some of them close to one
SafeTexts ==
    << <<>>,
       <<"h", "e", "l", "l", "o">>,
       <<"I", " ", "f", "e", "e", "l", " ", "f", "i", "n", "e", " ", "t", "o", "d", "a", "y">>,
       <<"H", "o", "p", "e", " ", "i", "s", " ", "n", "o", "t", " ", "l", "o", "s", "t">>,
       <<"I", " ", "c", "u", "t", " ", "m", "y", " ", "h", "a", "i", "r">>,
       <<"s", "u", "i", " ", "c", "i", "d", "e">>,
       <<"u", "s", "e", " ", "l", "e", "s", "s">>,
       <<"k", "i", "l", "l", " ", "m", "y", " ", "s", "e", "l", "f">>,
       <<"t", "r", "a", "p">>,
       <<"A", "1", "_", "b", "-", "2", " ", "(", "c", ")", " ", "[", "d", "]", "!">> >>

\* how an argument of check_for_crisis is built: around the word-th critical
\* trigger, around the word-th warning indicator, from the word-th safe
\* text, or a value that is no str
ClassifierInputs ==
    [kind : {"critical"}, word : 1..Len(critical_triggers),
     case : LetterCases, padding : Paddings,
     context : PlainContexts \cup WarningContexts]
    \cup [kind : {"warning"}, word : 1..Len(warning_indicators),
          case : LetterCases, padding : Paddings, context : PlainContexts]
    \cup [kind : {"safe"}, word : 1..Len(SafeTexts),
          case : LetterCases, padding : Paddings, context : {"alone"}]
    \cup [kind : {"none", "int"}, word : {1}, case : {"as_is"},
          padding : {"none"}, context : {"alone"}]

\* the argument built
ArgumentOf(input) ==
    IF input.kind = "none" THEN NoneValue
    ELSE IF input.kind = "int" THEN IntValue
    ELSE LET word == IF input.kind = "critical"
                     THEN critical_triggers[input.word]
                     ELSE IF input.kind = "warning"
                     THEN warning_indicators[input.word]
                     ELSE SafeTexts[input.word]
         IN  Str(Padded(input.padding,
                        InCase(input.case, InContext(input.context, word))))

Pending ==
    [level |-> "pending", triggered_words |-> << >>, message |-> "",
     requires_override |-> FALSE]

ClassifyInit ==
    /\ sessions = << >>
    /\ manager = SessionManager(DefaultMaxSessions)
    /\ handler = own_state(CrisisOverrideHandler(SafetyMonitor(<< >>)))
    /\ monitor = SafetyMonitor(<< >>)
    /\ earlier = NoCall
    /\ \E input \in ClassifierInputs :
           last = [call |-> "check_for_crisis", input |-> input,
                   returned |-> FALSE, response |-> Pending]

Classify ==
    /\ last.call = "check_for_crisis"
    /\ ~last.returned
    /\ LET out == check_for_crisis_call(monitor, ArgumentOf(last.input))
       IN  /\ monitor' = out.self
           /\ last' = [last EXCEPT !.returned = TRUE,
                                   !.response = out.response]
    /\ UNCHANGED << sessions, earlier, manager, handler >>

ClassifyNext == Classify

SpecClassify == ClassifyInit /\ [][ClassifyNext]_vars

\* C17: the CrisisResponse asks for the override exactly when its level is
\* CRITICAL, and a CRITICAL one carries a message that is not empty.
C17_OverrideExact ==
    last.returned =>
        /\ last.response.requires_override
              <=> last.response.level = "CRITICAL"
        /\ last.response.level = "CRITICAL" => last.response.message # ""

\* a warning indicator in capitals: WARNING without the override
C17_Witness ==
    /\ last.returned
    /\ last.input.kind = "warning" /\ last.input.case = "upper"
    /\ last.response.level = "WARNING"
    /\ ~last.response.requires_override

\* the words of a list that occur in the lower-cased text, in list order
Occurring(words, text) ==
    SelectSeq(words, LAMBDA w : Contains(Lower(text), w))

\* C18: a text built around a critical trigger, in any letter case, padding
\* and context, with or without a warning indicator next to it, is CRITICAL;
\* its matched list holds that trigger, every critical trigger that occurs
\* in the text and no warning indicator.  A text built around a warning
\* indicator only is WARNING.
C18_CriticalPrecedence ==
    last.returned =>
        /\ last.input.kind = "critical" =>
              /\ last.response.level = "CRITICAL"
              /\ \E i \in 1..Len(last.response.triggered_words) :
                    last.response.triggered_words[i]
                        = critical_triggers[last.input.word]
              /\ last.response.triggered_words
                    = Occurring(critical_triggers,
                                ArgumentOf(last.input).chars)
              /\ \A i \in 1..Len(last.response.triggered_words) :
                 \A j \in 1..Len(warning_indicators) :
                    last.response.triggered_words[i] # warning_indicators[j]
        /\ last.input.kind = "warning" => last.response.level = "WARNING"

\* a trigger in mixed case, padded, with a warning indicator in front
C18_Witness ==
    /\ last.returned
    /\ last.input.kind = "critical"
    /\ last.input.case = "mixed"
    /\ last.input.padding = "tab_newline"
    /\ last.input.context = "worthless_and"
    /\ last.response.level = "CRITICAL"
    /\ Len(last.response.triggered_words) = 1

\* C19: for a text that holds no configured word, the empty text, a text of
\* whitespace only and an argument that is no str (None) check_for_crisis
\* returns, without raising, NONE with no matched word and no override.
C19_NoFalsePositive ==
    last.returned /\ last.input.kind \in {"safe", "none", "int"} =>
        /\ last.response.level = "NONE"
        /\ last.response.triggered_words = << >>
        /\ ~last.response.requires_override

\* the call with None has returned NONE
C19_Witness ==
    /\ last.returned
    /\ last.input.kind = "none"
    /\ last.response.level = "NONE"

-----------------------------------------------------------------------------
(* check_phq9_question9 on its own: answers built from the known positive  *)
(* and negative indicators, each asked about twice                         *)

PositiveIndicators ==
    << <<"y", "e", "s">>,
       <<"s", "o", "m", "e", "t", "i", "m", "e", "s">>,
       <<"o", "f", "t", "e", "n">>,
       <<"n", "e", "a", "r", "l", "y", " ", "e", "v", "e", "r", "y", " ", "d", "a", "y">>,
       <<"s", "e", "v", "e", "r", "a", "l", " ", "d", "a", "y", "s">> >>

NegativeIndicators ==
    << <<"n", "o">>,
       <<"n", "e", "v", "e", "r">>,
       <<"n", "o", "t", " ", "a", "t", " ", "a", "l", "l">>,
       <<"a", "b", "s", "o", "l", "u", "t", "e", "l", "y", " ", "n", "o", "t">>,
       <<"d", "e", "f", "i", "n", "i", "t", "e", "l", "y", " ", "n", "o", "t">> >>

WellPrefix == <<"W", "e", "l", "l", ",", " ">>

ThinkingSuffix == <<",", " ", "I", " ", "h", "a", "v", "e", " ", "b", "e", "e", "n", " ", "t", "h", "i", "n", "k", "i", "n", "g", " ", "a", "b", "o", "u", "t", " ", "i", "t">>

\* how an answer is built from an indicator
PositiveForms == {"alone", "well", "thinking"}

NegativeForms == {"alone", "period"}

InForm(form, word) ==
    IF form = "well" THEN WellPrefix \o word
    ELSE IF form = "thinking" THEN word \o ThinkingSuffix
    ELSE IF form = "period" THEN word \o << "." >>
    ELSE word

IdeationInputs ==
    [kind : {"positive"}, word : 1..Len(PositiveIndicators),
     case : LetterCases, padding : Paddings, form : PositiveForms]
    \cup [kind : {"negative"}, word : 1..Len(NegativeIndicators),
          case : LetterCases, padding : Paddings, form : NegativeForms]

\* the answer built
AnswerOf(input) ==
    LET word == IF input.kind = "positive"
                THEN PositiveIndicators[input.word]
                ELSE NegativeIndicators[input.word]
    IN  Str(Padded(input.padding, InCase(input.case,
                                         InForm(input.form, word))))

IdeationInit ==
    /\ sessions = << >>
    /\ manager = SessionManager(DefaultMaxSessions)
    /\ handler = own_state(CrisisOverrideHandler(SafetyMonitor(<< >>)))
    /\ monitor = SafetyMonitor(<< >>)
    /\ earlier = NoCall
    /\ \E input \in IdeationInputs :
           last = [call |-> "check_phq9_question9", input |-> input,
                   returned |-> FALSE, result |-> FALSE]

CheckQuestion9 ==
    /\ last.call = "check_phq9_question9"
    /\ ~last.returned
    /\ last' = [last EXCEPT
                  !.returned = TRUE,
                  !.result = check_phq9_question9(AnswerOf(last.input))]
    /\ UNCHANGED << sessions, monitor, earlier, manager, handler >>

\* the same answer is checked once more; earlier keeps the first call
CheckQuestion9Again ==
    /\ last.call = "check_phq9_question9"
    /\ last.returned
    /\ earlier = NoCall
    /\ earlier' = last
    /\ last' = [last EXCEPT
                  !.result = check_phq9_question9(AnswerOf(last.input))]
    /\ UNCHANGED << sessions, monitor, manager, handler >>

IdeationNext ==
    \/ CheckQuestion9
    \/ CheckQuestion9Again

SpecIdeation == IdeationInit /\ [][IdeationNext]_vars

\* C20: check_phq9_question9 returns True for every answer built from a
\* positive indicator (alone, after "Well, ", before ", I have been
\* thinking about it") and False for every answer of fewer than 20
\* characters built from a negative indicator (alone or with a period), in
\* every letter case and padding, and a second call returns what the first
\* returned.
C20_IdeationKnownAnswers ==
    last.returned =>
        /\ last.input.kind = "positive" => last.result = TRUE
        /\ (/\ last.input.kind = "negative"
            /\ Len(Strip(AnswerOf(last.input).chars)) < 20) =>
               last.result = FALSE
        /\ "call" \in DOMAIN earlier => earlier.result = last.result

\* "NEARLY EVERY DAY, I HAVE BEEN THINKING ABOUT IT", padded, checked twice
C20_Witness ==
    /\ last.returned
    /\ "call" \in DOMAIN earlier
    /\ last.input.kind = "positive"
    /\ last.input.word = 4
    /\ last.input.form = "thinking"
    /\ last.input.case = "upper"
    /\ last.input.padding = "tab_newline"
    /\ last.result = TRUE

(***************************************************************************)
(* check_phq9_question9, the order of its decisions: answers built from a  *)
(* negative phrase, a positive phrase and a filler that matches nothing.   *)
(***************************************************************************)

\* one phrase or more of each alternation of the negative patterns
OrderNegatives ==
    << <<"n", "o">>,
       <<"n", "e", "v", "e", "r">>,
       <<"n", "o", "t", " ", "a", "t", " ", "a", "l", "l">>,
       <<"h", "a", "v", "e", "n", "'", "t">>,
       <<"d", "o", "n", "'", "t">>,
       <<"a", "b", "s", "o", "l", "u", "t", "e", "l", "y", " ", "n", "o", "t">>,
       <<"o", "f", " ", "c", "o", "u", "r", "s", "e", " ", "n", "o", "t">> >>

\* phrases of each of the four positive patterns
OrderPositives ==
    << <<"y", "e", "s">>,
       <<"o", "f", "t", "e", "n">>,
       <<"b", "e", "e", "n", " ", "t", "h", "i", "n", "k", "i", "n", "g">>,
       <<"c", "o", "n", "s", "i", "d", "e", "r", "e", "d">>,
       <<"w", "a", "n", "t", "i", "n", "g", " ", "t", "o", " ", "d", "i", "e">> >>

\* texts that contain a pattern's letters but match no pattern
NearMisses ==
    << <<"n", "o", "t", "h", "i", "n", "g">>,
       <<"I", " ", "k", "n", "o", "w">>,
       <<"y", "e", "s", "t", "e", "r", "d", "a", "y">>,
       <<"n", "o", "t", "a", "b", "l", "e">>,
       <<"t", "h", "o", "u", "g", "h", "t">>,
       <<"w", "a", "n", "t", "i", "n", "g", " ", "t", "o", " ", "d", "i", "e", "t">>,
       <<"n", "o", "b", "o", "d", "y", " ", "k", "n", "o", "w", "s", " ", "a", "n", "y", "m", "o", "r", "e">> >>

ReallyFiller == <<" ", "r", "e", "a", "l", "l", "y">>

WeeksFiller == <<" ", "i", "n", " ", "t", "h", "e", "s", "e", " ", "l", "a", "s", "t", " ", "f", "e", "w", " ", "w", "e", "e", "k", "s">>

Fillers == {"none", "really", "weeks"}

FillerOf(filler) ==
    IF filler = "really" THEN ReallyFiller
    ELSE IF filler = "weeks" THEN WeeksFiller
    ELSE << >>

\* negative and positive are indexes into the phrases, 0 for no phrase
OrderInputs ==
    [kind : {"built"}, negative : 0..Len(OrderNegatives),
     positive : 0..Len(OrderPositives), filler : Fillers,
     case : LetterCases, padding : Paddings]
    \cup [kind : {"near_miss"}, word : 1..Len(NearMisses)]
    \cup [kind : {"absent", "number"}]

BuiltText(input) ==
    LET negative == IF input.negative = 0 THEN << >>
                    ELSE OrderNegatives[input.negative]
        positive == IF input.positive = 0 THEN << >>
                    ELSE OrderPositives[input.positive]
        between == IF input.negative # 0 /\ input.positive # 0
                   THEN << " " >> ELSE << >>
    IN  Padded(input.padding,
               InCase(input.case,
                      negative \o between \o positive
                          \o FillerOf(input.filler)))

\* the argument of the call
ResponseOf(input) ==
    IF input.kind = "built" THEN Str(BuiltText(input))
    ELSE IF input.kind = "near_miss" THEN Str(NearMisses[input.word])
    ELSE IF input.kind = "number" THEN IntValue
    ELSE NoneValue

OrderInit ==
    /\ sessions = << >>
    /\ manager = SessionManager(DefaultMaxSessions)
    /\ handler = own_state(CrisisOverrideHandler(SafetyMonitor(<< >>)))
    /\ monitor = SafetyMonitor(<< >>)
    /\ earlier = NoCall
    /\ \E input \in OrderInputs :
           last = [call |-> "check_phq9_question9", input |-> input,
                   returned |-> FALSE, result |-> FALSE]

CheckAnswer ==
    /\ last.call = "check_phq9_question9"
    /\ ~last.returned
    /\ last' = [last EXCEPT
                  !.returned = TRUE,
                  !.result = check_phq9_question9(ResponseOf(last.input))]
    /\ UNCHANGED << sessions, monitor, earlier, manager, handler >>

OrderNext == CheckAnswer

SpecOrder == OrderInit /\ [][OrderNext]_vars

\* length of the answer after lower-casing and trimming
NormalizedLength(input) == Len(Strip(Lower(BuiltText(input))))

\* C21: check_phq9_question9 returns False for a built answer that holds a
\* negative phrase and is shorter than 20 characters once lower-cased and
\* trimmed, also when it holds a positive phrase; for every other built
\* answer it returns True exactly when the answer holds a positive phrase;
\* it returns False for the empty answer, for text matching no pattern and
\* for an absent or non-text argument.
C21_IdeationDecisionOrder ==
    last.returned =>
        IF last.input.kind # "built"
        THEN last.result = FALSE
        ELSE IF /\ last.input.negative # 0
                /\ NormalizedLength(last.input) < 20
        THEN last.result = FALSE
        ELSE last.result = (last.input.positive # 0)

\* "  never often really  ": negative and positive, 18 characters trimmed
\* (22 as typed), answered False
C21_Witness ==
    /\ last.returned
    /\ last.input.kind = "built"
    /\ last.input.negative = 2
    /\ last.input.positive = 2
    /\ last.input.filler = "really"
    /\ last.input.padding = "spaces"
    /\ NormalizedLength(last.input) = 18
    /\ Len(BuiltText(last.input)) = 22
    /\ last.result = FALSE

-----------------------------------------------------------------------------
(* session_manager.SessionManager: the operations of the store *)

\* SessionData.update_activity: last_activity = now
update_activity(session) == [session EXCEPT !.last_activity = "recent"]

\* SessionManager.get_session_count
get_session_count(store) == Cardinality(DOMAIN store)

\* the sessions a create leaves in a full store: all but the
\* least-recently-created ones, so that the new one fits
newest_sessions(store, max_sessions) ==
    {id \in DOMAIN store :
        Cardinality({other \in DOMAIN store : other > id})
            < max_sessions - 1}

\* create_session that evicts the most recently created sessions
create_session_in_evicting_newest(store, self, user_name) ==
    LET session_id == self.created + 1
        kept == {id \in DOMAIN store :
                    Cardinality({other \in DOMAIN store : other < id})
                        < self.max_sessions - 1}
    IN  [store |-> [id \in kept \cup {session_id} |->
                       IF id = session_id THEN create_session(user_name)
                       ELSE store[id]],
         self |-> [self EXCEPT !.created = session_id],
         session_id |-> session_id]

\* SessionManager.create_session(user_name): evicts the oldest-created
\* sessions of a full store, then inserts a fresh session
create_session_in(store, self, user_name) ==
    LET session_id == self.created + 1
        kept == newest_sessions(store, self.max_sessions)
    IN  [store |-> [id \in kept \cup {session_id} |->
                       IF id = session_id THEN create_session(user_name)
                       ELSE store[id]],
         self |-> [self EXCEPT !.created = session_id],
         session_id |-> session_id]

\* SessionManager.update_session(session_id, **changes): success or not found
update_session_in(store, session_id, changes) ==
    IF get_session(store, session_id) = << >>
    THEN [store |-> store, success |-> FALSE]
    ELSE [store |-> [store EXCEPT ![session_id] =
                        update_activity(update_session(@, changes))],
          success |-> TRUE]

\* SessionManager.add_conversation(session_id, ...)
add_conversation_in(store, session_id, user_message, ai_message, phase) ==
    IF get_session(store, session_id) = << >>
    THEN [store |-> store, success |-> FALSE]
    ELSE [store |-> [store EXCEPT ![session_id] =
                        update_activity(add_conversation(@, user_message,
                                                         ai_message, phase))],
          success |-> TRUE]

\* SessionManager.add_response(session_id, ...)
add_response_in(store, session_id, question_id, user_text, score) ==
    IF get_session(store, session_id) = << >>
    THEN [store |-> store, success |-> FALSE]
    ELSE [store |-> [store EXCEPT ![session_id] =
                        update_activity(add_response(@, question_id,
                                                     user_text, score))],
          success |-> TRUE]

\* delete_session that reports success for every id
delete_session_always_true(store, session_id) ==
    [store |-> [id \in DOMAIN store \ {session_id} |-> store[id]],
     success |-> TRUE]

\* SessionManager.delete_session(session_id): whether the session existed
delete_session(store, session_id) ==
    [store |-> [id \in DOMAIN store \ {session_id} |-> store[id]],
     success |-> session_id \in DOMAIN store]

\* SessionManager.cleanup_expired_sessions: the number of sessions removed
cleanup_expired_sessions(store) ==
    LET expired == {id \in DOMAIN store : is_expired(store[id])}
    IN  [store |-> [id \in DOMAIN store \ expired |-> store[id]],
         removed_count |-> Cardinality(expired)]

\* shutdown that stops the reaper and leaves the clearing to it
shutdown_stopping_only(store, self) ==
    [store |-> store, self |-> [self EXCEPT !.running = FALSE]]

\* SessionManager.shutdown: stops the reaper and clears the sessions
shutdown(store, self) ==
    [store |-> << >>, self |-> [self EXCEPT !.running = FALSE]]

\* the store under calls made one after another; max_sessions of its manager
StoreMaxSessions == 2

\* the ids the manager issues, which are the ids a call can name: before its
\* creation an id is one the store never issued
StoreIds == {1, 2, 3}

\* what a test writes into a session names the session it is written to
UniqueMessage(session_id) == << "Unique message for session", session_id >>

NoStoreCall == [call |-> "none"]

StoreInit ==
    /\ sessions = << >>
    /\ manager = SessionManager(StoreMaxSessions)
    /\ handler = own_state(CrisisOverrideHandler(SafetyMonitor(<< >>)))
    /\ last = NoStoreCall
    /\ monitor = SafetyMonitor(<< >>)
    /\ earlier = NoCall

StoreCreate ==
    /\ manager.created + 1 \in StoreIds
    /\ LET out == create_session_in(sessions, manager, TestUser)
       IN  /\ sessions' = out.store
           /\ manager' = out.self
           /\ last' = [call |-> "create_session",
                       session_id |-> out.session_id,
                       result |-> out.session_id]
    /\ UNCHANGED << monitor, earlier, handler >>

StoreGet ==
    \E session_id \in StoreIds :
        /\ last' = [call |-> "get_session", session_id |-> session_id,
                    result |-> get_session(sessions, session_id)]
        /\ UNCHANGED << sessions, monitor, earlier, manager, handler >>

StoreUpdate ==
    \E session_id \in StoreIds :
        LET out == update_session_in(sessions, session_id,
                                     [current_phase |-> "TRIAGE"])
        IN  /\ sessions' = out.store
            /\ last' = [call |-> "update_session",
                        session_id |-> session_id, result |-> out.success]
            /\ UNCHANGED << monitor, earlier, manager, handler >>

StoreAddConversation ==
    \E session_id \in StoreIds :
        /\ session_id \in DOMAIN sessions =>
               sessions[session_id].conversation_history = << >>
        /\ LET out == add_conversation_in(sessions, session_id,
                                          UniqueMessage(session_id),
                                          "Response", "GREETING")
           IN  /\ sessions' = out.store
               /\ last' = [call |-> "add_conversation",
                           session_id |-> session_id,
                           result |-> out.success]
        /\ UNCHANGED << monitor, earlier, manager, handler >>

StoreAddResponse ==
    \E session_id \in StoreIds :
        /\ session_id \in DOMAIN sessions =>
               sessions[session_id].responses = << >>
        /\ LET out == add_response_in(sessions, session_id, 1,
                                      UniqueMessage(session_id), 1)
           IN  /\ sessions' = out.store
               /\ last' = [call |-> "add_response",
                           session_id |-> session_id,
                           result |-> out.success]
        /\ UNCHANGED << monitor, earlier, manager, handler >>

StoreDelete ==
    \E session_id \in StoreIds :
        LET out == delete_session(sessions, session_id)
        IN  /\ sessions' = out.store
            /\ last' = [call |-> "delete_session",
                        session_id |-> session_id, result |-> out.success]
            /\ UNCHANGED << monitor, earlier, manager, handler >>

\* cleanup_expired_sessions called directly, as the tests call it
StoreCleanup ==
    LET out == cleanup_expired_sessions(sessions)
    IN  /\ sessions' = out.store
        /\ last' = [call |-> "cleanup_expired_sessions",
                    result |-> out.removed_count]
        /\ UNCHANGED << monitor, earlier, manager, handler >>

\* the same, run by the background reaper while it is scheduled
StoreReaper ==
    /\ manager.running
    /\ \E id \in DOMAIN sessions : is_expired(sessions[id])
    /\ sessions' = cleanup_expired_sessions(sessions).store
    /\ last' = NoStoreCall
    /\ UNCHANGED << monitor, earlier, manager, handler >>

StoreShutdown ==
    /\ manager.running
    /\ LET out == shutdown(sessions, manager)
       IN  /\ sessions' = out.store
           /\ manager' = out.self
    /\ last' = [call |-> "shutdown",
                count_before |-> get_session_count(sessions)]
    /\ UNCHANGED << monitor, earlier, handler >>

\* the timeout of a session passes: its last_activity now lies too far back
StoreTimePasses ==
    \E session_id \in DOMAIN sessions :
        /\ ~is_expired(sessions[session_id])
        /\ sessions' = [sessions EXCEPT
                          ![session_id].last_activity = "timed_out"]
        /\ last' = NoStoreCall
        /\ UNCHANGED << monitor, earlier, manager, handler >>

StoreNext ==
    \/ StoreCreate
    \/ StoreGet
    \/ StoreUpdate
    \/ StoreAddConversation
    \/ StoreAddResponse
    \/ StoreDelete
    \/ StoreCleanup
    \/ StoreReaper
    \/ StoreShutdown
    \/ StoreTimePasses

SpecStore == StoreInit /\ [][StoreNext]_vars

\* the step is a call of the named store operation
StoreCall(call) == last'.call = call

\* the sessions of the store whose timeout has passed
ExpiredIds(store) == {id \in DOMAIN store : is_expired(store[id])}

\* C22: get_session returns None for a session whose timeout has passed
\* while the session is still stored, as it does for an id the store never
\* issued, and returns the stored session otherwise; a following
\* cleanup_expired_sessions removes every expired session, returns their
\* number and leaves every other session as it was.
C22_ExpiryAtRead ==
    [][/\ StoreCall("get_session") =>
            LET session_id == last'.session_id
            IN  /\ (/\ session_id \in DOMAIN sessions
                    /\ is_expired(sessions[session_id])) =>
                       /\ last'.result = << >>
                       /\ last'.result = get_session(<< >>, session_id)
                /\ (/\ session_id \in DOMAIN sessions
                    /\ ~is_expired(sessions[session_id])) =>
                       last'.result = << sessions[session_id] >>
       /\ StoreCall("cleanup_expired_sessions") =>
            /\ DOMAIN sessions' = DOMAIN sessions \ ExpiredIds(sessions)
            /\ last'.result = Cardinality(ExpiredIds(sessions))
            /\ \A id \in DOMAIN sessions' : sessions'[id] = sessions[id]
      ]_vars

\* session 2 timed out and is still stored, next to session 3: get_session(2)
\* has returned None
C22_Witness ==
    /\ last.call = "get_session"
    /\ last.session_id = 2
    /\ DOMAIN sessions = {2, 3}
    /\ is_expired(sessions[2])
    /\ ~is_expired(sessions[3])
    /\ last.result = << >>

\* C23: get_session_count never exceeds max_sessions; a create_session in a
\* full store evicts sessions created before every session it keeps, evicts
\* none while there is room, and the session it created is stored afterwards.
C23_CapacityOldestFirst ==
    [][/\ get_session_count(sessions') <= manager'.max_sessions
       /\ StoreCall("create_session") =>
            LET evicted == DOMAIN sessions \ DOMAIN sessions'
                kept == DOMAIN sessions \cap DOMAIN sessions'
            IN  /\ last'.result \in DOMAIN sessions'
                /\ last'.result \notin DOMAIN sessions
                /\ get_session(sessions', last'.result) # << >>
                /\ \A old \in evicted : \A new \in kept : old < new
                /\ get_session_count(sessions) < manager.max_sessions =>
                       evicted = {}
                /\ \A id \in kept : sessions'[id] = sessions[id]
      ]_vars

\* the third session was created in a full store: session 1 was evicted
C23_Witness ==
    /\ last.call = "create_session"
    /\ last.result = 3
    /\ DOMAIN sessions = {2, 3}
    /\ get_session_count(sessions) = manager.max_sessions
    /\ sessions[2].conversation_history # << >>

\* the step removes sessions without a call having been made
ReaperStep ==
    /\ last'.call = "none"
    /\ DOMAIN sessions' # DOMAIN sessions

\* C24: right after shutdown get_session_count is 0 and get_session returns
\* None for every id, whatever the sessions held; the background reaper
\* removes nothing once shutdown has been called.
C24_ShutdownClears ==
    [][/\ StoreCall("shutdown") =>
            /\ get_session_count(sessions') = 0
            /\ \A id \in StoreIds : get_session(sessions', id) = << >>
            /\ ~manager'.running
       /\ ReaperStep => manager.running
      ]_vars

\* shutdown has just returned; the store held two sessions when it was called
C24_Witness ==
    /\ last.call = "shutdown"
    /\ last.count_before = 2
    /\ ~manager.running
    /\ sessions = << >>

\* C25: delete_session returns True exactly when the session was stored;
\* afterwards the id is not in the store and get_session returns None for
\* it, every other session is as it was, and a second delete_session of
\* the same id right after returns False.
C25_DeleteRemoves ==
    [][StoreCall("delete_session") =>
            LET session_id == last'.session_id
            IN  /\ last'.result = (session_id \in DOMAIN sessions)
                /\ session_id \notin DOMAIN sessions'
                /\ get_session(sessions', session_id) = << >>
                /\ DOMAIN sessions' = DOMAIN sessions \ {session_id}
                /\ \A id \in DOMAIN sessions' : sessions'[id] = sessions[id]
                /\ (/\ last.call = "delete_session"
                    /\ last.session_id = session_id) =>
                       last'.result = FALSE
      ]_vars

\* session 1, which held a conversation and a response, was deleted beside
\* session 2
C25_Witness ==
    /\ last.call = "delete_session"
    /\ last.session_id = 1
    /\ last.result = TRUE
    /\ DOMAIN sessions = {2}
    /\ sessions[2].responses # << >>

-----------------------------------------------------------------------------
(* session_manager.SessionManager under concurrent calls: every operation  *)
(* on a session holds that session's lock from its first read to its last  *)
(* write, the reaper included; operations on other sessions go on.         *)

\* locks that never make a caller wait
can_acquire_always(self, session_id) == TRUE

\* the lock of a session can be taken: no operation holds it
can_acquire(self, session_id) == session_id \notin self.locks

\* a reaper that examines and removes sessions without their lock
cleanup_without_lock(self, session_id) == TRUE

\* the reaper takes the lock of the session it examines as the calls do
cleanup_can_acquire(self, session_id) == can_acquire(self, session_id)

acquire(self, session_id) == [self EXCEPT !.locks = @ \cup {session_id}]

release(self, session_id) == [self EXCEPT !.locks = @ \ {session_id}]

\* the same with one conversation_history list and one responses list that
\* all sessions share
store_session_shared_lists(store, session_id, session) ==
    [id \in DOMAIN store \cup {session_id} |->
        IF id = session_id THEN session
        ELSE [store[id] EXCEPT
                !.conversation_history = session.conversation_history,
                !.responses = session.responses]]

\* self.sessions[session_id] = session
store_session(store, session_id, session) ==
    [id \in DOMAIN store \cup {session_id} |->
        IF id = session_id THEN session ELSE store[id]]

Threads == {"thread_1", "thread_2"}

Reaper == "reaper"

\* the sessions the threads work on
ThreadIds == {1, 2}

\* the changes of the threads' update_session calls
ThreadChanges == [current_phase |-> "SCREENING", selected_tool |-> "PHQ9"]

ThreadCalls ==
    [call : {"update_session", "add_conversation", "add_response",
             "get_session", "delete_session"},
     session_id : ThreadIds]
    \cup [call : {"create_session"}, session_id : {0}]

\* a call just made: nothing of it has run
Called(call) ==
    [pc |-> "called", call |-> call.call, session_id |-> call.session_id,
     snapshot |-> << >>, result |-> None]

ThreadsInit ==
    /\ sessions = [id \in ThreadIds |-> create_session(TestUser)]
    /\ manager = [SessionManager(DefaultMaxSessions) EXCEPT !.created = 2]
    /\ handler = own_state(CrisisOverrideHandler(SafetyMonitor(<< >>)))
    /\ monitor = SafetyMonitor(<< >>)
    /\ earlier = NoCall
    /\ \E calls \in [Threads -> ThreadCalls] :
           last = [t \in Threads \cup {Reaper} |->
                      IF t = Reaper
                      THEN [pc |-> "idle", call |-> "cleanup_expired_sessions",
                            session_id |-> 0, todo |-> {},
                            snapshot |-> << >>, result |-> 0]
                      ELSE Called(calls[t])]

\* create_session: the new session has an id no other thread knows yet
ThreadCreate ==
    \E t \in Threads :
        /\ last[t].pc = "called"
        /\ last[t].call = "create_session"
        /\ LET out == create_session_in(sessions, manager, TestUser)
           IN  /\ sessions' = out.store
               /\ manager' = out.self
               /\ last' = [last EXCEPT ![t].pc = "returned",
                                       ![t].session_id = out.session_id,
                                       ![t].result = out.session_id]
        /\ UNCHANGED << monitor, earlier, handler >>

\* the thread takes the lock of the session its call names
ThreadAcquire ==
    \E t \in Threads :
        /\ last[t].pc = "called"
        /\ last[t].call # "create_session"
        /\ can_acquire(manager, last[t].session_id)
        /\ manager' = acquire(manager, last[t].session_id)
        /\ last' = [last EXCEPT ![t].pc = "locked"]
        /\ UNCHANGED << sessions, monitor, earlier, handler >>

\* the thread looks the session up; get_session and delete_session and the
\* calls that find no session return here
ThreadRead ==
    \E t \in Threads :
        LET session_id == last[t].session_id
            found == get_session(sessions, session_id)
        IN  /\ last[t].pc = "locked"
            /\ IF last[t].call = "delete_session"
               THEN LET out == delete_session(sessions, session_id)
                    IN  /\ sessions' = out.store
                        /\ manager' = release(manager, session_id)
                        /\ last' = [last EXCEPT ![t].pc = "returned",
                                                ![t].result = out.success]
               ELSE IF last[t].call = "get_session"
               THEN /\ last' = [last EXCEPT ![t].pc = "returned",
                                            ![t].result = found]
                    /\ manager' = release(manager, session_id)
                    /\ UNCHANGED sessions
               ELSE IF found = << >>
               THEN /\ last' = [last EXCEPT ![t].pc = "returned",
                                            ![t].result = FALSE]
                    /\ manager' = release(manager, session_id)
                    /\ UNCHANGED sessions
               ELSE /\ last' = [last EXCEPT ![t].pc = "read",
                                            ![t].snapshot = found]
                    /\ UNCHANGED << sessions, manager >>
            /\ UNCHANGED << monitor, earlier, handler >>

\* update_session sets the first of its fields
ThreadWriteFirst ==
    \E t \in Threads :
        LET session_id == last[t].session_id
            session == update_session(last[t].snapshot[1],
                           [current_phase |-> ThreadChanges.current_phase])
        IN  /\ last[t].pc = "read"
            /\ last[t].call = "update_session"
            /\ sessions' = store_session(sessions, session_id, session)
            /\ last' = [last EXCEPT ![t].pc = "half",
                                    ![t].snapshot = << session >>]
            /\ UNCHANGED << monitor, earlier, manager, handler >>

\* the thread writes the session back, refreshed, and returns success
ThreadWrite ==
    \E t \in Threads :
        LET session_id == last[t].session_id
            session == last[t].snapshot[1]
            written ==
                IF last[t].call = "update_session"
                THEN update_session(session, ThreadChanges)
                ELSE IF last[t].call = "add_conversation"
                THEN add_conversation(session, UniqueMessage(t),
                                      "Response", "GREETING")
                ELSE add_response(session, 1, UniqueMessage(t), 1)
        IN  /\ \/ last[t].pc = "half"
               \/ last[t].pc = "read" /\ last[t].call # "update_session"
            /\ sessions' = store_session(sessions, session_id,
                                         update_activity(written))
            /\ manager' = release(manager, session_id)
            /\ last' = [last EXCEPT ![t].pc = "returned",
                                    ![t].snapshot = << >>,
                                    ![t].result = TRUE]
            /\ UNCHANGED << monitor, earlier, handler >>

\* a pass of the reaper begins: it will examine the sessions stored now,
\* oldest first
ReaperStart ==
    /\ manager.running
    /\ last[Reaper].pc = "idle"
    /\ DOMAIN sessions # {}
    /\ last' = [last EXCEPT
                  ![Reaper].pc = "called",
                  ![Reaper].session_id = SetMin(DOMAIN sessions),
                  ![Reaper].todo = DOMAIN sessions \ {SetMin(DOMAIN sessions)}]
    /\ UNCHANGED << sessions, monitor, earlier, manager, handler >>

ReaperAcquire ==
    LET session_id == last[Reaper].session_id
    IN  /\ last[Reaper].pc = "called"
        /\ cleanup_can_acquire(manager, session_id)
        /\ manager' = acquire(manager, session_id)
        /\ last' = [last EXCEPT ![Reaper].pc = "locked"]
        /\ UNCHANGED << sessions, monitor, earlier, handler >>

\* the reaper examines the session: is it stored and expired
ReaperExamine ==
    LET session_id == last[Reaper].session_id
    IN  /\ last[Reaper].pc = "locked"
        /\ last' = [last EXCEPT
                      ![Reaper].pc = "examined",
                      ![Reaper].snapshot =
                          IF /\ session_id \in DOMAIN sessions
                             /\ is_expired(sessions[session_id])
                          THEN << sessions[session_id] >>
                          ELSE << >>]
        /\ UNCHANGED << sessions, monitor, earlier, manager, handler >>

\* the reaper removes the session it found expired, and goes on to the next
\* session or ends its pass
ReaperRemove ==
    LET session_id == last[Reaper].session_id
        expired == last[Reaper].snapshot # << >>
        rest == last[Reaper].todo
    IN  /\ last[Reaper].pc = "examined"
        /\ sessions' = IF expired
                       THEN delete_session(sessions, session_id).store
                       ELSE sessions
        /\ manager' = release(manager, session_id)
        /\ last' = [last EXCEPT
                      ![Reaper].pc = IF rest = {} THEN "returned"
                                     ELSE "called",
                      ![Reaper].session_id = IF rest = {} THEN 0
                                             ELSE SetMin(rest),
                      ![Reaper].todo = IF rest = {} THEN {}
                                       ELSE rest \ {SetMin(rest)},
                      ![Reaper].snapshot = << >>,
                      ![Reaper].result = IF expired THEN @ + 1 ELSE @]
        /\ UNCHANGED << monitor, earlier, handler >>

\* time passes for a session: its last_activity lies further back, first
\* by part of the timeout ("stale"), then by more than the timeout
ThreadsTimePasses ==
    \E session_id \in DOMAIN sessions :
        /\ ~is_expired(sessions[session_id])
        /\ sessions' = [sessions EXCEPT ![session_id].last_activity =
                          IF @ = "recent" THEN "stale" ELSE "timed_out"]
        /\ UNCHANGED << last, monitor, earlier, manager, handler >>

ThreadsNext ==
    \/ ThreadCreate
    \/ ThreadAcquire
    \/ ThreadRead
    \/ ThreadWriteFirst
    \/ ThreadWrite
    \/ ReaperStart
    \/ ReaperAcquire
    \/ ReaperExamine
    \/ ReaperRemove
    \/ ThreadsTimePasses

SpecThreads == ThreadsInit /\ [][ThreadsNext]_vars

\* the step is one of thread t
StepOf(t) == last'[t].pc # last[t].pc

\* the calls that write into a session
Writers == {"update_session", "add_conversation", "add_response"}

\* the user texts of a list of entries
WrittenBy(entries, field) == {entries[i][field] : i \in 1..Len(entries)}

\* the threads whose call of this kind names the session
Addressing(call, session_id) ==
    {t \in Threads : last[t].call = call /\ last[t].session_id = session_id}

\* C26: a step of an update_session, add_conversation or add_response call
\* on one session leaves every other stored session as it was, and a
\* session's conversation_history and responses hold nothing but what the
\* calls naming that session wrote, its phase and tool are changed only if
\* an update_session names it; this for calls made one after another and
\* for calls of two threads in every interleaving.
C26_SessionIsolation ==
    [][/\ \A t \in Threads :
            (StepOf(t) /\ last[t].call \in Writers) =>
                \A other \in DOMAIN sessions \ {last[t].session_id} :
                    /\ other \in DOMAIN sessions'
                    /\ sessions'[other] = sessions[other]
       /\ \A id \in DOMAIN sessions' :
            /\ WrittenBy(sessions'[id].conversation_history, "user_message")
                   \subseteq {UniqueMessage(t) :
                                 t \in Addressing("add_conversation", id)}
            /\ WrittenBy(sessions'[id].responses, "user_text")
                   \subseteq {UniqueMessage(t) :
                                 t \in Addressing("add_response", id)}
            /\ Addressing("update_session", id) = {} =>
                   /\ sessions'[id].current_phase = "GREETING"
                   /\ sessions'[id].selected_tool = None
      ]_vars

\* thread_1 updated session 1 and thread_2 added a conversation turn to
\* session 2; each session holds its own data only
C26_Witness ==
    /\ last["thread_1"].pc = "returned"
    /\ last["thread_1"].call = "update_session"
    /\ last["thread_1"].session_id = 1
    /\ last["thread_1"].result = TRUE
    /\ last["thread_2"].pc = "returned"
    /\ last["thread_2"].call = "add_conversation"
    /\ last["thread_2"].session_id = 2
    /\ last["thread_2"].result = TRUE
    /\ DOMAIN sessions = {1, 2}
    /\ sessions[1].current_phase = "SCREENING"
    /\ sessions[1].conversation_history = << >>
    /\ sessions[2].current_phase = "GREETING"
    /\ Len(sessions[2].conversation_history) = 1

\* the number of entries of the list with this text
Occurrences(entries, field, text) ==
    Cardinality({i \in 1..Len(entries) : entries[i][field] = text})

\* a session none of whose updates is half applied
Whole(session) ==
    (session.current_phase = ThreadChanges.current_phase)
        <=> (session.selected_tool = ThreadChanges.selected_tool)

\* C27: for update_session, add_conversation and add_response calls of two
\* threads on the same session, in every interleaving: while the session
\* is stored it shows the effect of every call that returned success, an
\* appended entry is there exactly once with all its fields, and no
\* get_session returns a session with an update half applied.
C27_NoLostUpdate ==
    \A t \in Threads :
        last[t].pc = "returned" =>
            LET session_id == last[t].session_id
            IN  /\ (/\ last[t].call \in Writers
                    /\ last[t].result = TRUE
                    /\ session_id \in DOMAIN sessions) =>
                       LET session == sessions[session_id]
                       IN  /\ last[t].call = "update_session" =>
                                  /\ session.current_phase
                                         = ThreadChanges.current_phase
                                  /\ session.selected_tool
                                         = ThreadChanges.selected_tool
                           /\ last[t].call = "add_conversation" =>
                                  /\ Occurrences(session.conversation_history,
                                         "user_message", UniqueMessage(t)) = 1
                                  /\ \A i \in 1..Len(session.conversation_history) :
                                         session.conversation_history[i]
                                             \in [user_message : {UniqueMessage(o) : o \in Threads},
                                                  ai_message : {"Response"},
                                                  phase : {"GREETING"}]
                           /\ last[t].call = "add_response" =>
                                  Occurrences(session.responses,
                                      "user_text", UniqueMessage(t)) = 1
                /\ (last[t].call = "get_session" /\ last[t].result # << >>) =>
                       Whole(last[t].result[1])

\* both threads wrote into session 1, one a conversation turn and one an
\* update, and both effects are there
C27_Witness ==
    /\ last["thread_1"].pc = "returned"
    /\ last["thread_1"].call = "add_conversation"
    /\ last["thread_1"].session_id = 1
    /\ last["thread_1"].result = TRUE
    /\ last["thread_2"].pc = "returned"
    /\ last["thread_2"].call = "update_session"
    /\ last["thread_2"].session_id = 1
    /\ last["thread_2"].result = TRUE
    /\ 1 \in DOMAIN sessions
    /\ Len(sessions[1].conversation_history) = 1
    /\ sessions[1].current_phase = "SCREENING"

\* the step is the reaper's and removes the session it examined
ReaperRemoves ==
    /\ last[Reaper].pc = "examined"
    /\ last'[Reaper].pc # "examined"
    /\ DOMAIN sessions' # DOMAIN sessions

\* the step is a thread's successful return from a call that writes
ReturnsSuccess(t) ==
    /\ StepOf(t)
    /\ last'[t].pc = "returned"
    /\ last[t].call \in Writers
    /\ last'[t].result = TRUE

\* C28: while a pass of the reaper runs together with create_session,
\* update_session, add_conversation, add_response and delete_session calls
\* of two threads, in every interleaving: the reaper removes a session only
\* if the session's timeout has passed when it removes it, and then
\* removes it entirely and nothing else; a call that returns success
\* leaves its session stored and refreshed; a session that no operation
\* holds is never half updated; and an id that left the store never
\* comes back.
C28_ReaperNoDestructiveRace ==
    [][/\ ReaperRemoves =>
            LET session_id == last[Reaper].session_id
            IN  /\ session_id \in DOMAIN sessions
                /\ is_expired(sessions[session_id])
                /\ DOMAIN sessions' = DOMAIN sessions \ {session_id}
                /\ \A id \in DOMAIN sessions' : sessions'[id] = sessions[id]
       /\ \A t \in Threads :
            ReturnsSuccess(t) =>
                /\ last[t].session_id \in DOMAIN sessions'
                /\ sessions'[last[t].session_id].last_activity = "recent"
       /\ \A id \in DOMAIN sessions' :
            id \notin manager'.locks => Whole(sessions'[id])
       /\ \A id \in DOMAIN sessions' \ DOMAIN sessions :
            /\ id = manager'.created
            /\ id > manager.created
      ]_vars

\* the reaper removed session 1, whose timeout had passed, and left session
\* 2, which thread_2 had updated in the meantime, stored and whole
C28_Witness ==
    /\ last[Reaper].pc = "returned"
    /\ last[Reaper].result = 1
    /\ last["thread_1"].pc = "returned"
    /\ last["thread_1"].call = "add_conversation"
    /\ last["thread_1"].session_id = 1
    /\ last["thread_1"].result = FALSE
    /\ last["thread_2"].pc = "returned"
    /\ last["thread_2"].call = "update_session"
    /\ last["thread_2"].session_id = 2
    /\ last["thread_2"].result = TRUE
    /\ DOMAIN sessions = {2}
    /\ sessions[2].current_phase = "SCREENING"
    /\ sessions[2].last_activity = "recent"

-----------------------------------------------------------------------------
(* safety_monitor.CrisisOverrideHandler *)

\* process_user_input that keeps crisis_detected equal to its last verdict
process_user_input_last_verdict(self, text, is_phq9_q9, now) ==
    LET crisis_response == check_for_crisis_of(self.safety_monitor, text)
        detected == \/ is_phq9_q9 /\ check_phq9_question9(text)
                    \/ crisis_response.level = "CRITICAL"
    IN  [self |-> [self EXCEPT !.crisis_detected = detected,
                               !.crisis_timestamp = now],
         should_override |-> detected,
         override_message |-> IF detected THEN CrisisMessage
                              ELSE IF crisis_response.level = "WARNING"
                              THEN crisis_response.message
                              ELSE None]

\* process_user_input that asks check_phq9_question9 about every text
process_user_input_any_question(self, text, is_phq9_q9, now) ==
    LET crisis_response == check_for_crisis_of(self.safety_monitor, text)
    IN  IF check_phq9_question9(text)
        THEN [self |-> [self EXCEPT !.crisis_detected = TRUE,
                                    !.crisis_timestamp = now],
              should_override |-> TRUE,
              override_message |-> CrisisMessage]
        ELSE IF crisis_response.level = "CRITICAL"
        THEN [self |-> [self EXCEPT !.crisis_detected = TRUE,
                                    !.crisis_timestamp = now],
              should_override |-> TRUE,
              override_message |-> crisis_response.message]
        ELSE IF crisis_response.level = "WARNING"
        THEN [self |-> self, should_override |-> FALSE,
              override_message |-> crisis_response.message]
        ELSE [self |-> self, should_override |-> FALSE,
              override_message |-> None]

\* CrisisOverrideHandler.process_user_input: the handler afterwards and the
\* tuple returned; now is what datetime.now() returns
process_user_input(self, text, is_phq9_q9, now) ==
    LET crisis_response == check_for_crisis_of(self.safety_monitor, text)
    IN  IF is_phq9_q9 /\ check_phq9_question9(text)
        THEN [self |-> [self EXCEPT !.crisis_detected = TRUE,
                                    !.crisis_timestamp = now],
              should_override |-> TRUE,
              override_message |-> CrisisMessage]
        ELSE IF crisis_response.level = "CRITICAL"
        THEN [self |-> [self EXCEPT !.crisis_detected = TRUE,
                                    !.crisis_timestamp = now],
              should_override |-> TRUE,
              override_message |-> crisis_response.message]
        ELSE IF crisis_response.level = "WARNING"
        THEN [self |-> self, should_override |-> FALSE,
              override_message |-> crisis_response.message]
        ELSE [self |-> self, should_override |-> FALSE,
              override_message |-> None]

\* CrisisOverrideHandler.is_crisis_active
is_crisis_active(self) == self.crisis_detected

\* CrisisOverrideHandler.reset_crisis_state
reset_crisis_state(self) ==
    [self EXCEPT !.crisis_detected = FALSE, !.crisis_timestamp = None]

\* the calls made on one handler; the number of a call stands for the time
\* it is made at
MaxCalls == 3

\* texts given to the handler, each with the level check_for_crisis gives
\* it and the answer of check_phq9_question9
HandlerTexts ==
    << 
       [text |-> Str(<<"I", " ", "w", "a", "n", "t", " ", "t", "o", " ", "k", "i", "l", "l", " ", "m", "y", "s", "e", "l", "f">>),
        level |-> "CRITICAL", positive |-> FALSE],
       [text |-> Str(<<"I", " ", "f", "e", "e", "l", " ", "h", "o", "p", "e", "l", "e", "s", "s">>),
        level |-> "WARNING", positive |-> FALSE],
       [text |-> Str(<<"h", "e", "l", "l", "o">>),
        level |-> "NONE", positive |-> FALSE],
       [text |-> Str(<<"y", "e", "s">>),
        level |-> "NONE", positive |-> TRUE],
       [text |-> Str(<<"n", "o">>),
        level |-> "NONE", positive |-> FALSE],
       [text |-> Str(<<"s", "o", "m", "e", "t", "i", "m", "e", "s", " ", "I", " ", "f", "e", "e", "l", " ", "h", "o", "p", "e", "l", "e", "s", "s">>),
        level |-> "WARNING", positive |-> TRUE],
       [text |-> Str(<<"y", "e", "s", ",", " ", "I", " ", "w", "a", "n", "t", " ", "t", "o", " ", "d", "i", "e">>),
        level |-> "CRITICAL", positive |-> TRUE],
       [text |-> Str(<<"I", " ", "h", "a", "v", "e", " ", "t", "h", "o", "u", "g", "h", "t", " ", "o", "f", " ", "d", "e", "a", "t", "h">>),
        level |-> "NONE", positive |-> TRUE],
       [text |-> Str(<<"n", "o", "t", " ", "a", "t", " ", "a", "l", "l", ",", " ", "b", "u", "t", " ", "i", "t", " ", "c", "r", "o", "s", "s", "e", "d", " ", "m", "y", " ", "m", "i", "n", "d">>),
        level |-> "NONE", positive |-> TRUE],
       [text |-> Str(<<>>),
        level |-> "NONE", positive |-> FALSE],
       [text |-> Str(<<" ", " ", " ">>),
        level |-> "NONE", positive |-> FALSE],
       [text |-> Str(<<"S", "U", "I", "C", "I", "D", "E">>),
        level |-> "CRITICAL", positive |-> FALSE],
       [text |-> Str(<<" ", " ", "O", "f", "t", "e", "n", " ", " ">>),
        level |-> "NONE", positive |-> TRUE],
       [text |-> Str(<<"n", "e", "v", "e", "r", ",", " ", "I", " ", "a", "m", " ", "w", "o", "r", "t", "h", "l", "e", "s", "s">>),
        level |-> "WARNING", positive |-> FALSE],
       [text |-> NoneValue,
        level |-> "NONE", positive |-> FALSE] >>

HandlerInit ==
    /\ sessions = << >>
    /\ manager = SessionManager(DefaultMaxSessions)
    /\ handler = own_state(CrisisOverrideHandler(SafetyMonitor(<< >>)))
    /\ monitor = SafetyMonitor(<< >>)
    /\ earlier = NoCall
    /\ last = [call |-> "none", number |-> 0]

ProcessUserInput ==
    \E text \in 1..Len(HandlerTexts) :
    \E is_phq9_q9 \in BOOLEAN :
        /\ last.number < MaxCalls
        /\ LET out == process_user_input(
                          with_safety_monitor(handler, monitor),
                          HandlerTexts[text].text, is_phq9_q9,
                          last.number + 1)
           IN  /\ handler' = own_state(out.self)
               /\ last' = [call |-> "process_user_input",
                           number |-> last.number + 1,
                           text |-> text, is_phq9_q9 |-> is_phq9_q9,
                           should_override |-> out.should_override,
                           override_message |-> out.override_message]
        /\ UNCHANGED << sessions, monitor, earlier, manager >>

IsCrisisActive ==
    /\ last.number < MaxCalls
    /\ last' = [call |-> "is_crisis_active", number |-> last.number + 1,
                result |-> is_crisis_active(handler)]
    /\ UNCHANGED << sessions, monitor, earlier, manager, handler >>

ResetCrisisState ==
    /\ last.number < MaxCalls
    /\ handler' = reset_crisis_state(handler)
    /\ last' = [call |-> "reset_crisis_state", number |-> last.number + 1]
    /\ UNCHANGED << sessions, monitor, earlier, manager >>

HandlerNext ==
    \/ ProcessUserInput
    \/ IsCrisisActive
    \/ ResetCrisisState

SpecHandler == HandlerInit /\ [][HandlerNext]_vars

\* C29: process_user_input returns should_override True exactly when the
\* text is CRITICAL, or is_phq9_q9 is True and the text is a positive answer
\* to question 9; when it returns True the message is neither None nor empty
\* and is_crisis_active() is True afterwards; a WARNING or NONE text that is
\* no positive answer to question 9 asked as such does not override.
C29_HandlerOverride ==
    last.call = "process_user_input" =>
        LET given == HandlerTexts[last.text]
            ideation == last.is_phq9_q9 /\ given.positive
        IN  /\ last.should_override
                   = (given.level = "CRITICAL" \/ ideation)
            /\ last.should_override =>
                   /\ last.override_message \notin {None, ""}
                   /\ is_crisis_active(handler)
            /\ (given.level \in {"WARNING", "NONE"} /\ ~ideation) =>
                   ~last.should_override

\* "sometimes I feel hopeless", a WARNING text, overrode as an answer to
\* question 9
C29_Witness ==
    /\ last.call = "process_user_input"
    /\ last.text = 6
    /\ last.is_phq9_q9
    /\ last.should_override
    /\ last.override_message = CrisisMessage
    /\ is_crisis_active(handler)

\* C30: is_crisis_active() is False before any call; once a
\* process_user_input call has overridden it stays True through every later
\* process_user_input call, whatever the text, and is_crisis_active
\* returns it; reset_crisis_state makes it False again.
C30_HandlerLatch ==
    /\ ~is_crisis_active(handler)
    /\ [][/\ (last'.call = "process_user_input" /\ last'.should_override) =>
                is_crisis_active(handler')
          /\ (last'.call = "process_user_input" /\ is_crisis_active(handler)) =>
                is_crisis_active(handler')
          /\ last'.call = "is_crisis_active" =>
                /\ last'.result = is_crisis_active(handler)
                /\ handler' = handler
          /\ last'.call = "reset_crisis_state" =>
                ~is_crisis_active(handler')
         ]_vars

\* the third call, of "hello", after an override and a WARNING text: the
\* crisis is still active, detected at the first call
C30_Witness ==
    /\ last.call = "process_user_input"
    /\ last.number = 3
    /\ last.text = 3
    /\ ~last.should_override
    /\ is_crisis_active(handler)
    /\ handler.crisis_timestamp = 1

-----------------------------------------------------------------------------
(* Calls whose text is classified WARNING *)

Warning(text) == safety_monitor_check_for_crisis(text).level = "WARNING"

\* C31: a call whose text is classified WARNING leaves the session with the
\* phase, selected_tool, responses and crisis_detected that the handler of
\* the session's phase produces for that text, and does not set
\* crisis_detected.
C31_WarningNeverPreempts ==
    [][ProcessStep /\ Warning(StepText) =>
          /\ \E reply \in ScoreReplies :
                LET normal == route_by_phase(Pre, StepText, reply).session
                IN  /\ Post.current_phase = normal.current_phase
                    /\ Post.selected_tool = normal.selected_tool
                    /\ Post.responses = normal.responses
                    /\ Post.crisis_detected = normal.crisis_detected
          /\ Post.crisis_detected = Pre.crisis_detected]_vars

-----------------------------------------------------------------------------
(* Calls on a session whose current_phase is no member of ConversationPhase *)
(* that the routing of process_user_message names                          *)

\* a phase value that process_user_message has no branch for
UnknownPhase == "UNKNOWN"

\* the sessions the recovery is tried on: with and without a name, with and
\* without a tool and a first answer, with the crisis flag set and unset
RecoverySessions ==
    {[create_session(user_name) EXCEPT
         !.selected_tool = shape.tool,
         !.responses = shape.responses,
         !.crisis_detected = crisis] :
       user_name \in {NoName, TestUser},
       shape \in {[tool |-> None, responses |-> << >>],
                  [tool |-> "GAD7", responses |-> << >>],
                  [tool |-> "PHQ9",
                   responses |-> << [question_id |-> "phq9_1",
                                     user_text |-> Messages[10],
                                     mapped_score |-> 0] >>]},
       crisis \in BOOLEAN}

RecoveryInit ==
    /\ sessions \in {[id \in {1} |-> session] : session \in RecoverySessions}
    /\ manager = SessionManager(DefaultMaxSessions)
    /\ handler = own_state(CrisisOverrideHandler(SafetyMonitor(<< >>)))
    /\ last = NoCall
    /\ monitor = SafetyMonitor(<< >>)
    /\ earlier = NoCall

\* the stored phase becomes a value outside the routing
RecoveryLosePhase ==
    \E session_id \in DOMAIN sessions :
        /\ sessions[session_id].current_phase # UnknownPhase
        /\ sessions' = [sessions EXCEPT ![session_id] =
              update_session(@, [current_phase |-> UnknownPhase])]
        /\ last' = NoCall
        /\ UNCHANGED << monitor, earlier, manager, handler >>

RecoveryProcess ==
    \E session_id \in DOMAIN sessions :
    \E message \in 1..Len(Messages) :
    \E reply \in ScoreReplies :
        /\ Len(sessions[session_id].conversation_history) < MaxHistory
        /\ LET out == process_user_message(sessions, session_id,
                                           Messages[message], reply)
           IN  /\ sessions' = out.store
               /\ last' = [session_id |-> session_id, message |-> message,
                           result |-> out.result]
               /\ UNCHANGED << monitor, earlier, manager, handler >>

RecoveryNext ==
    \/ RecoveryLosePhase
    \/ RecoveryProcess

SpecRecovery == RecoveryInit /\ [][RecoveryNext]_vars

\* C32: a non-CRITICAL call on a session whose phase is unrecognized sets the
\* phase to GREETING, returns the opening question with phase GREETING and no
\* error, and leaves user_name, selected_tool, responses and crisis_detected
\* as they were.
C32_UnknownPhaseRecovery ==
    [][ProcessStep /\ Pre.current_phase = UnknownPhase
          /\ ~Critical(StepText) =>
          /\ Post.current_phase = "GREETING"
          /\ StepResult.current_phase = "GREETING"
          /\ StepResult.ai_response = "start_over_question"
          /\ "error" \notin DOMAIN StepResult
          /\ Post.user_name = Pre.user_name
          /\ Post.selected_tool = Pre.selected_tool
          /\ Post.responses = Pre.responses
          /\ Post.crisis_detected = Pre.crisis_detected]_vars

-----------------------------------------------------------------------------
(* process_user_message statement by statement: the calls it makes on the  *)
(* session manager, one after the other, while other threads call it too   *)

\* GeminiClient._get_fallback_response: the fixed text of a context (a text
\* is a sequence of strings; a fixed text is kept as its name)
_get_fallback_response(context) == << "fallback_response", context >>

\* GeminiClient.generate_response, given what model.generate_content does
\* with the prompt: it raises, or it returns a response with this text
generate_response_of(context, generated) ==
    IF generated.raises \/ generated.text = << >>
    THEN _get_fallback_response(context)
    ELSE Strip(generated.text)

\* the calls on the session manager that a handler makes, in order
update_session_call(changes) ==
    [call |-> "update_session", changes |-> changes]

add_response_call(question_id, user_text, score) ==
    [call |-> "add_response", question_id |-> question_id,
     user_text |-> user_text, score |-> score]

add_conversation_call(user_message, ai_message, phase) ==
    [call |-> "add_conversation", user_message |-> user_message,
     ai_message |-> ai_message, phase |-> phase]

\* _handle_greeting_phase: lines 135, 145 and 148, or line 164
_handle_greeting_phase_calls(session, user_message, generated) ==
    IF session.user_name = NoName /\ Strip(user_message) # << >>
    THEN << update_session_call([user_name |-> FirstToken(user_message)]),
            update_session_call([current_phase |-> "TRIAGE"]),
            add_conversation_call(user_message,
                                  generate_response_of("background_check",
                                                       generated),
                                  "TRIAGE") >>
    ELSE << add_conversation_call(user_message,
                                  generate_response_of("greeting", generated),
                                  "GREETING") >>

\* _handle_triage_phase
_handle_triage_phase_calls(session, user_message, generated) ==
    LET screening_tool == _determine_screening_tool(user_message)
    IN  << update_session_call([selected_tool |-> screening_tool,
                                current_phase |-> "SCREENING"]),
           add_conversation_call(
               user_message,
               generate_response_of(ScreeningContext(screening_tool),
                                    generated),
               "SCREENING") >>

\* _handle_phq9_q9_crisis
_handle_phq9_q9_crisis_calls(session, user_message, score) ==
    << update_session_call([crisis_detected |-> TRUE,
                            current_phase |-> "CRISIS_RESPONSE"]),
       add_response_call("phq9_9", user_message, score),
       add_conversation_call(user_message, << "phq9_q9_crisis_message" >>,
                             "CRISIS_RESPONSE") >>

\* _transition_to_results
_transition_to_results_calls(session, user_message, reply, generated) ==
    LET questions == screening_questions[session.selected_tool]
        current_question_index == Len(session.responses)
    IN  (IF Strip(user_message) # << >>
            /\ current_question_index < Len(questions)
         THEN << add_response_call(
                     questions[current_question_index + 1], user_message,
                     map_response_to_score(user_message, reply)) >>
         ELSE << >>)
        \o << update_session_call([current_phase |-> "RESULTS"]),
              update_session_call([completed |-> TRUE]),
              add_conversation_call(user_message,
                                    generate_response_of(
                                        "results_explanation", generated),
                                    "RESULTS") >>

\* _handle_screening_phase
_handle_screening_phase_calls(session, user_message, reply, generated) ==
    IF session.selected_tool = None
    THEN << >>
    ELSE
    LET screening_tool == session.selected_tool
        questions == screening_questions[screening_tool]
        current_question_index == Len(session.responses)
    IN  IF current_question_index >= Len(questions)
        THEN _transition_to_results_calls(session, user_message, reply,
                                          generated)
        ELSE
        LET current_question ==
                IF current_question_index > 0
                THEN questions[current_question_index]
                ELSE questions[1]
            score == map_response_to_score(user_message, reply)
        IN  IF current_question_index > 0 /\ screening_tool = "PHQ9"
               /\ current_question = "phq9_9" /\ score > 0
            THEN _handle_phq9_q9_crisis_calls(session, user_message, score)
            ELSE (IF current_question_index > 0
                  THEN << add_response_call(current_question, user_message,
                                            score) >>
                  ELSE << >>)
                 \o << add_conversation_call(
                           user_message,
                           generate_response_of(
                               ScreeningContext(screening_tool), generated),
                           "SCREENING") >>

\* _handle_results_phase
_handle_results_phase_calls(session, user_message, generated) ==
    IF session.selected_tool = None
    THEN << >>
    ELSE << update_session_call([completed |-> TRUE]),
            add_conversation_call(user_message,
                                  generate_response_of(
                                      "results_explanation", generated),
                                  "RESULTS") >>

\* _handle_unknown_phase
_handle_unknown_phase_calls(session, user_message) ==
    << update_session_call([current_phase |-> "GREETING"]) >>

\* _handle_crisis_response
_handle_crisis_response_calls(session, user_message, crisis_response) ==
    << update_session_call([crisis_detected |-> TRUE,
                            current_phase |-> "CRISIS_RESPONSE"]),
       add_conversation_call(
           user_message,
           IF crisis_response.message # ""
           THEN << crisis_response.message >>
           ELSE << "default_crisis_message" >>,
           "CRISIS_RESPONSE") >>

\* variant: the call keeps the generated text as the user's name
process_user_message_calls_naming(session, user_message, reply, generated) ==
    << update_session_call(
           [user_name |-> generate_response_of("greeting", generated)]) >>

\* process_user_message after its get_session: the calls it goes on to make
process_user_message_calls(session, user_message, reply, generated) ==
    LET crisis_response == safety_monitor_check_for_crisis(user_message)
    IN  IF OverrideAttribute \notin DOMAIN crisis_response
        THEN \* AttributeError, caught by the except clause
             << >>
        ELSE IF crisis_response[OverrideAttribute]
        THEN _handle_crisis_response_calls(session, user_message,
                                           crisis_response)
        ELSE IF session.current_phase = "GREETING"
        THEN _handle_greeting_phase_calls(session, user_message, generated)
        ELSE IF session.current_phase = "TRIAGE"
        THEN _handle_triage_phase_calls(session, user_message, generated)
        ELSE IF session.current_phase = "SCREENING"
        THEN _handle_screening_phase_calls(session, user_message, reply,
                                           generated)
        ELSE IF session.current_phase = "RESULTS"
        THEN _handle_results_phase_calls(session, user_message, generated)
        ELSE _handle_unknown_phase_calls(session, user_message)

\* one call on the session manager, made for the session of the message
make_call(store, session_id, c) ==
    IF c.call = "update_session"
    THEN update_session_in(store, session_id, c.changes).store
    ELSE IF c.call = "add_response"
    THEN add_response_in(store, session_id, c.question_id, c.user_text,
                         c.score).store
    ELSE add_conversation_in(store, session_id, c.user_message,
                             c.ai_message, c.phase).store

RECURSIVE make_calls(_, _, _)
\* the calls of a sequence made one right after the other
make_calls(store, session_id, calls) ==
    IF calls = << >> THEN store
    ELSE make_calls(make_call(store, session_id, Head(calls)), session_id,
                    Tail(calls))

\* the session the threads' messages are for
FlowId == 1

\* the sessions the threads find: a fresh one, one waiting for the concern,
\* one in the middle of a questionnaire and one with every answer recorded
FlowSessions ==
    {create_session(NoName),
     [create_session(TestUser) EXCEPT !.current_phase = "TRIAGE"],
     [add_responses([create_session(TestUser) EXCEPT
                        !.selected_tool = "GAD7"], "GAD7", 1, 2)
         EXCEPT !.current_phase = "SCREENING"],
     [add_responses([create_session(TestUser) EXCEPT
                        !.selected_tool = "GAD7"], "GAD7", 1, 7)
         EXCEPT !.current_phase = "SCREENING"]}

\* the texts of the threads' messages, as indices of Messages
FlowMessages == {3, 5, 7, 8}

FlowReplies == {0, 2}

\* what model.generate_content does while the threads' calls run
FlowGenerated ==
    {[raises |-> TRUE, text |-> << >>],
     [raises |-> FALSE, text |-> << "H", "i", " " >>]}

FlowIdle ==
    [pc |-> "idle", message |-> 0, reply |-> 0,
     generated |-> [raises |-> TRUE, text |-> << >>],
     pending |-> << >>, result |-> [no_call |-> TRUE]]

FlowInit ==
    /\ sessions \in {[id \in {FlowId} |-> session] : session \in FlowSessions}
    /\ earlier = sessions
    /\ manager = SessionManager(DefaultMaxSessions)
    /\ handler = own_state(CrisisOverrideHandler(SafetyMonitor(<< >>)))
    /\ monitor = SafetyMonitor(<< >>)
    /\ last = [t \in Threads |-> FlowIdle]

\* the calls on the session manager that process_user_message makes when it
\* finds this store
calls_on(store, message, reply, generated) ==
    IF get_session(store, FlowId) = << >> THEN << >>
    ELSE process_user_message_calls(store[FlowId], Messages[message], reply,
                                    generated)

\* a thread enters process_user_message: get_session, check_for_crisis and
\* the routing, up to the handler's first call on the session manager
FlowEnter ==
    \E t \in Threads :
    \E message \in FlowMessages :
    \E reply \in FlowReplies :
    \E generated \in FlowGenerated :
        /\ last[t].pc = "idle"
        /\ last' = [last EXCEPT ![t] =
              [pc |-> "running", message |-> message, reply |-> reply,
               generated |-> generated,
               pending |-> calls_on(sessions, message, reply, generated),
               result |-> process_user_message(sessions, FlowId,
                                               Messages[message],
                                               reply).result]]
        /\ UNCHANGED << sessions, monitor, earlier, manager, handler >>

\* a thread makes its next call on the session manager, or returns when it
\* has none left
FlowAdvance ==
    \E t \in Threads :
        /\ last[t].pc = "running"
        /\ IF last[t].pending = << >>
           THEN /\ last' = [last EXCEPT ![t].pc = "returned"]
                /\ UNCHANGED sessions
           ELSE /\ sessions' = make_call(sessions, FlowId,
                                         Head(last[t].pending))
                /\ last' = [last EXCEPT ![t].pending = Tail(@)]
        /\ UNCHANGED << monitor, earlier, manager, handler >>

\* the caller gives up a call in progress: it makes no further call
FlowAbandon ==
    \E t \in Threads :
        /\ last[t].pc = "running"
        /\ last' = [last EXCEPT ![t].pc = "abandoned"]
        /\ UNCHANGED << sessions, monitor, earlier, manager, handler >>

FlowDelete ==
    /\ FlowId \in DOMAIN sessions
    /\ sessions' = delete_session(sessions, FlowId).store
    /\ UNCHANGED << last, monitor, earlier, manager, handler >>

\* the timeout of the session passes
FlowTimePasses ==
    /\ FlowId \in DOMAIN sessions
    /\ ~is_expired(sessions[FlowId])
    /\ sessions' = [sessions EXCEPT ![FlowId].last_activity = "timed_out"]
    /\ UNCHANGED << last, monitor, earlier, manager, handler >>

FlowNext ==
    \/ FlowEnter
    \/ FlowAdvance
    \/ FlowAbandon
    \/ FlowDelete
    \/ FlowTimePasses

SpecFlow == FlowInit /\ [][FlowNext]_vars

\* what of a session the callers of the session manager can see
Visible(session) == [session EXCEPT !.last_activity = "recent"]

\* a session without the wording of its transcript
Unworded(session) ==
    [Visible(session) EXCEPT !.conversation_history =
        [i \in DOMAIN @ |-> [user_message |-> @[i].user_message,
                             phase |-> @[i].phase]]]

\* the handlers' calls, made one right after the other, leave the session
\* that the handlers leave when they are taken as one step
CallsAgree ==
    \A session \in FlowSessions :
    \A message \in FlowMessages :
    \A reply \in FlowReplies :
    \A generated \in FlowGenerated :
        LET store == [id \in {FlowId} |-> session]
        IN  Unworded(make_calls(store, FlowId,
                                calls_on(store, message, reply,
                                         generated))[FlowId])
              = Unworded(process_session_message(session, Messages[message],
                                                 reply).session)

RunWhole(store, t) ==
    make_calls(store, FlowId,
               calls_on(store, last[t].message, last[t].reply,
                        last[t].generated))

\* the stores that the two threads' calls leave when one call runs whole
\* before the other enters
OneAfterTheOther ==
    {RunWhole(RunWhole(earlier, order[1]), order[2]) :
        order \in {<< "thread_1", "thread_2" >>,
                   << "thread_2", "thread_1" >>}}

-----------------------------------------------------------------------------
(* The same call made twice on the same session, with different texts      *)
(* generated by the model                                                  *)

\* the sessions the call is made on
WordingSessions ==
    FlowSessions
    \cup {[add_responses([create_session(TestUser) EXCEPT
                             !.selected_tool = "GAD7"], "GAD7", 1, 7)
              EXCEPT !.current_phase = "RESULTS"]}

WordingMessages == FlowMessages \cup {1}

\* what model.generate_content does with the prompt
WordingGenerated ==
    FlowGenerated
    \cup {[raises |-> FALSE, text |-> << >>],
          [raises |-> FALSE, text |-> << "A", "n", "n" >>]}

NoRun ==
    [message |-> 0, reply |-> 0,
     generated |-> [raises |-> TRUE, text |-> << >>], store |-> << >>]

WordingInit ==
    /\ sessions \in
          {[id \in {FlowId} |-> session] : session \in WordingSessions}
    /\ manager = SessionManager(DefaultMaxSessions)
    /\ handler = own_state(CrisisOverrideHandler(SafetyMonitor(<< >>)))
    /\ monitor = SafetyMonitor(<< >>)
    /\ last = NoRun
    /\ earlier = NoRun

\* one run of process_user_message on the session as it was at first: what
\* the run was given and the store it leaves
WordingRun ==
    \E message \in WordingMessages :
    \E reply \in FlowReplies :
    \E generated \in WordingGenerated :
        /\ earlier' = last
        /\ last' = [message |-> message, reply |-> reply,
                    generated |-> generated,
                    store |-> make_calls(sessions, FlowId,
                                         calls_on(sessions, message, reply,
                                                  generated))]
        /\ UNCHANGED << sessions, monitor, manager, handler >>

WordingNext == WordingRun

SpecWording == WordingInit /\ [][WordingNext]_vars

\* the last two runs were given the same message and the same score, and
\* model.generate_content behaved differently
RunsDifferInWording ==
    /\ earlier.message # 0
    /\ last.message = earlier.message
    /\ last.reply = earlier.reply
    /\ last.generated # earlier.generated

\* C34: two runs of process_user_message on the same session with the same
\* message that differ only in the text that generate_response returns leave
\* the same phase, user_name, selected_tool, responses, crisis_detected and
\* completed, and the same transcript but for its ai_message.
C34_WordingNonInterference ==
    RunsDifferInWording =>
        Unworded(last.store[FlowId]) = Unworded(earlier.store[FlowId])

C34_Witness ==
    /\ RunsDifferInWording
    /\ sessions[FlowId].current_phase = "GREETING"
    /\ sessions[FlowId].user_name = NoName
    /\ Strip(Messages[last.message]) # << >>
    /\ ~Critical(Messages[last.message])
    /\ last.generated.text = << "A", "n", "n" >>
    /\ earlier.generated.text = << "H", "i", " " >>

-----------------------------------------------------------------------------
(* The transcript and the returned dict of a call, under Spec *)

\* C36: every call on a live session appends exactly one entry to
\* conversation_history, holding the call's user message and the ai_response
\* it returns, and leaves the earlier entries as they are.
C36_TranscriptComplete ==
    [][ProcessStep =>
          LET before == Pre.conversation_history
              after == Post.conversation_history
          IN  /\ Len(after) = Len(before) + 1
              /\ SubSeq(after, 1, Len(before)) = before
              /\ after[Len(after)].user_message = StepText
              /\ after[Len(after)].ai_message = StepResult.ai_response]_vars

\* C37: after every call on a live session the crisis_detected and the
\* current_phase of the returned dict are those of the session as the call
\* leaves it.
C37_ResultReflectsSession ==
    [][ProcessStep =>
          /\ StepResult.crisis_detected = Post.crisis_detected
          /\ StepResult.current_phase = Post.current_phase]_vars

\* a completed session has a tool and one response per question of it
CompletedInFull(session) ==
    session.completed =>
        /\ session.selected_tool # None
        /\ Len(session.responses) = QuestionCount(session.selected_tool)

-----------------------------------------------------------------------------
(* A session in GREETING that keeps receiving messages *)

\* the sessions that receive the messages: created without and with a
\* user_name, and one whose phase was lost
GreetingSessions ==
    {create_session(NoName), create_session(TestUser),
     [create_session(NoName) EXCEPT !.current_phase = UnknownPhase]}

\* the messages with a non-space character that are not classified CRITICAL
SaidMessages ==
    {m \in 1..Len(Messages) :
        Strip(Messages[m]) # << >> /\ ~Critical(Messages[m])}

\* the messages without a non-space character
SilentMessages == {m \in 1..Len(Messages) : Strip(Messages[m]) = << >>}

GreetingInit ==
    /\ sessions \in
          {[id \in {FlowId} |-> session] : session \in GreetingSessions}
    /\ manager = SessionManager(DefaultMaxSessions)
    /\ handler = own_state(CrisisOverrideHandler(SafetyMonitor(<< >>)))
    /\ monitor = SafetyMonitor(<< >>)
    /\ last = NoCall
    /\ earlier = NoCall

\* process_user_message with a message that has a non-space character
GreetingSay ==
    \E message \in SaidMessages :
    \E reply \in ScoreReplies :
        /\ Len(sessions[FlowId].conversation_history) < MaxHistory
        /\ LET out == process_user_message(sessions, FlowId,
                                           Messages[message], reply)
           IN  /\ sessions' = out.store
               /\ last' = [session_id |-> FlowId, message |-> message,
                           reply |-> reply, result |-> out.result]
        /\ UNCHANGED << monitor, earlier, manager, handler >>

\* process_user_message with an empty or all-space message
GreetingSayNothing ==
    \E message \in SilentMessages :
    \E reply \in ScoreReplies :
        /\ Len(sessions[FlowId].conversation_history) < MaxHistory
        /\ LET out == process_user_message(sessions, FlowId,
                                           Messages[message], reply)
           IN  /\ sessions' = out.store
               /\ last' = [session_id |-> FlowId, message |-> message,
                           reply |-> reply, result |-> out.result]
        /\ UNCHANGED << monitor, earlier, manager, handler >>

GreetingNext ==
    \/ GreetingSay
    \/ GreetingSayNothing

\* the session goes on receiving messages with a non-space character
SpecGreeting ==
    GreetingInit /\ [][GreetingNext]_vars /\ WF_vars(GreetingSay)

\* C39: a session in GREETING that goes on receiving non-CRITICAL messages
\* with a non-space character is eventually in TRIAGE, whether or not it was
\* created with a user_name.
C39_GreetingIsLeft ==
    (sessions[FlowId].current_phase = "GREETING")
        ~> (sessions[FlowId].current_phase = "TRIAGE")

-----------------------------------------------------------------------------
(* The screening tool of a session in SCREENING or RESULTS, under Spec *)

\* a session in SCREENING or RESULTS has a selected_tool
HasInstrument(session) ==
    session.current_phase \in {"SCREENING", "RESULTS"} =>
        session.selected_tool # None

\* C40: a call never leaves a session in SCREENING or RESULTS without a
\* selected_tool unless it found it so, and on a session that has its tool it
\* does not return the error "No screening tool selected".
C40_ScreeningHasInstrument ==
    [][ProcessStep /\ HasInstrument(Pre) =>
          /\ HasInstrument(Post)
          /\ "error" \in DOMAIN StepResult =>
                StepResult.error # "No screening tool selected"]_vars

C40_Witness ==
    /\ CalledLive
    /\ CalledSession.current_phase = "TRIAGE"
    /\ CalledSession.selected_tool = None
    /\ Strip(CalledText) # << >>
    /\ ~Critical(CalledText)

====
